---- MODULE Spec2Model ----
(***************************************************************************)
(* Verification model of the Sega GNO exporter core:                       *)
(*   - strippifier.py : topology graph (Vertex / Edge / Triangle / Mesh)   *)
(*                      and Strippifier.Strippify                          *)
(*   - nn.py          : File write primitives and write_new_gno_file_2     *)
(* Vertex indices are 0-based as in the source; TLA+ sequences are 1-based *)
(* so Python's list[k] is seq[k + 1].  Triangles are numbered 1..n in the  *)
(* order of the index list; 0 stands for Python's None.                    *)
(***************************************************************************)
EXTENDS Integers, Sequences, FiniteSets, TLC

\* ------------------------------------------------------------------------
\* Bounds of the explored inputs
\* ------------------------------------------------------------------------
\* arbitrary (possibly non-manifold) index lists have at most MaxTris triangles
MaxTris == 3
\* manifold index lists (every edge in at most 2 triangles) may be longer
MaxManifoldTris == 4
\* vertex indices of an index list are drawn from 0 .. NumVerts - 1
NumVerts == 4
MaxSurfaceTris == 5
NumSurfaceVerts == 6
\* longest file the File object is driven to
MaxFileLen == 4
\* longest relocation table the File object is driven to
MaxRelocations == 2
\* a scene has at most MaxMeshes mesh objects and MaxMaterials materials
MaxMeshes == 2
MaxMaterials == 2

\* ------------------------------------------------------------------------
\* Program constants
\* ------------------------------------------------------------------------
\* value of the module global raiseTopoErrorG when the module is imported
raiseTopoErrorG_initial == TRUE
\* default of the parameter raiseTopoError of Strippify
raiseTopoError_default == FALSE
\* class attribute Strippifier.has_uv_list
has_uv_list_initial == FALSE
\* getFirstTri: curNCount = 0xFFFF
curNCount_initial == 65535

None == 0

VARIABLES
    face_indices,     \* the index list handed to Strippify, as a sequence of triangles
    opts,             \* arguments of the running Strippify call
    pc,               \* "caller" | "loop" | "returned" | "raised"
    error,            \* exception that left Strippify ("" when none)
    mesh,             \* the Mesh graph (under construction or finished)
    used,             \* Triangle.used, per triangle
    written,          \* Strippifier.written
    strips,           \* Strippifier.strips
    normal_strips,    \* Strippifier.normal_strips
    uv_strips,        \* Strippifier.uv_strips
    firstTri,         \* local firstTri of Strippify
    has_uv_list,      \* Strippifier.has_uv_list as seen through self
    uv_strip_attr,    \* TRUE when the attribute self.uv_strip exists
    raiseTopoErrorG,  \* module global raiseTopoErrorG
    reversals,        \* number of strips of this call that executed strip.reverse()
    result,           \* value returned by Strippify (<<>> before it returns)
    fileobject,       \* File.fileobject: [data, pos], the bytes of the file and the position
    NOF0_offsets,     \* GNO.NOF0_offsets, the relocation table
    last_op,          \* the File operation executed last, with its arguments
    wpc,              \* the section write_model executes next ("idle" outside a build)
    scene,            \* the keywords of write_model and the Blender scene it exports
    loc               \* the locals of write_new_gno_file_2 and write_model

svars == <<face_indices, opts, pc, error, mesh, used, written, strips,
           normal_strips, uv_strips, firstTri, has_uv_list, uv_strip_attr,
           raiseTopoErrorG, reversals, result>>

fvars == <<fileobject, NOF0_offsets, last_op>>

wvars == <<wpc, scene, loc>>

\* ------------------------------------------------------------------------
\* Generic helpers
\* ------------------------------------------------------------------------
Range(s) == {s[i] : i \in 1..Len(s)}

InSeq(x, s) == \E i \in 1..Len(s) : s[i] = x

\* list.index(x): position (1-based) of the first occurrence
IndexOf(x, s) == CHOOSE i \in 1..Len(s) : s[i] = x /\ \A j \in 1..(i - 1) : s[j] # x

\* list.reverse()
Reverse(s) == [i \in 1..Len(s) |-> s[Len(s) + 1 - i]]

\* list.insert(0, x)
Insert0(s, x) == <<x>> \o s

Max(a, b) == IF a > b THEN a ELSE b

RECURSIVE SumSeq(_)
SumSeq(s) == IF s = <<>> THEN 0 ELSE Head(s) + SumSeq(Tail(s))

\* ------------------------------------------------------------------------
\* Topology graph: Vertex, Edge, Triangle, Mesh   (strippifier.py 30-289)
\* ------------------------------------------------------------------------
EmptyMesh == [verts |-> <<>>, edges |-> <<>>, tedges |-> <<>>,
              neighbours |-> <<>>, raised |-> FALSE]

\* Vertex.isConnectedWith: the edge between v1 and v2, or None
isConnectedWith(m, v1, v2) ==
    IF \E e \in 1..Len(m.edges) : Range(m.edges[e].vertices) = {v1, v2}
    THEN CHOOSE e \in 1..Len(m.edges) : Range(m.edges[e].vertices) = {v1, v2}
    ELSE None

\* Faulty variant of the loop of Edge.addTriangle: the triangles on the edge
\* get tri as a neighbour, tri does not get them
RECURSIVE LinkNeighbours_oneWay(_, _, _)
LinkNeighbours_oneWay(nb, ts, tri) ==
    IF ts = <<>> THEN nb
    ELSE LinkNeighbours_oneWay([nb EXCEPT ![Head(ts)] = Append(@, tri)], Tail(ts), tri)

\* Edge.addTriangle: tri becomes a neighbour of every triangle already on
\* the edge (and they of it), then joins the edge
RECURSIVE LinkNeighbours(_, _, _)
LinkNeighbours(nb, ts, tri) ==
    IF ts = <<>> THEN nb
    ELSE LET t == Head(ts)
             nb1 == [nb EXCEPT ![t] = Append(@, tri)]
             nb2 == [nb1 EXCEPT ![tri] = Append(@, t)]
         IN LinkNeighbours(nb2, Tail(ts), tri)

addTriangle(m, e, tri) ==
    [m EXCEPT !.neighbours = LinkNeighbours(m.neighbours, m.edges[e].triangles, tri),
              !.edges[e].triangles = Append(@, tri),
              !.tedges[tri] = Append(@, e)]

\* Faulty variant of addEdge: the test is off by one (len(e.triangles) > 2),
\* so a third triangle is attached before the error is raised
addEdge_offByOne(m, tri, v1, v2, strict) ==
    LET e == isConnectedWith(m, v1, v2)
    IN IF m.raised THEN m
       ELSE IF e = None
            THEN addTriangle([m EXCEPT !.edges = Append(@, [vertices |-> <<v1, v2>>,
                                                          triangles |-> <<>>])],
                             Len(m.edges) + 1, tri)
       ELSE IF strict /\ Len(m.edges[e].triangles) > 2
            THEN [m EXCEPT !.raised = TRUE]
       ELSE addTriangle(m, e, tri)

\* Triangle.addEdge; strict is the value of raiseTopoErrorG
addEdge(m, tri, v1, v2, strict) ==
    LET e == isConnectedWith(m, v1, v2)
    IN IF m.raised THEN m
       ELSE IF e = None
            THEN addTriangle([m EXCEPT !.edges = Append(@, [vertices |-> <<v1, v2>>,
                                                          triangles |-> <<>>])],
                             Len(m.edges) + 1, tri)
       ELSE IF strict /\ Len(m.edges[e].triangles) > 1
            THEN [m EXCEPT !.raised = TRUE]
       ELSE addTriangle(m, e, tri)

\* Triangle.__init__: for i in range(-1, 2): addEdge(vertices[i], vertices[i + 1])
Triangle_init(m, verts, strict) ==
    LET tri == Len(m.verts) + 1
        m0 == [m EXCEPT !.verts = Append(@, verts),
                        !.tedges = Append(@, <<>>),
                        !.neighbours = Append(@, <<>>)]
        m1 == addEdge(m0, tri, verts[3], verts[1], strict)
        m2 == addEdge(m1, tri, verts[1], verts[2], strict)
        m3 == addEdge(m2, tri, verts[2], verts[3], strict)
    IN m3

\* Mesh.__init__: the triangles are constructed in list order; construction
\* stops at the first TopologyError
RECURSIVE Mesh_build(_, _, _)
Mesh_build(m, tl, strict) ==
    IF tl = <<>> \/ m.raised THEN m
    ELSE Mesh_build(Triangle_init(m, Head(tl), strict), Tail(tl), strict)

Mesh_init(triList, strict) == Mesh_build(EmptyMesh, triList, strict)

\* ------------------------------------------------------------------------
\* Triangle and Vertex queries   (strippifier.py 44-50, 139-234)
\* ------------------------------------------------------------------------
\* Triangle.hasVertex
hasVertex(m, t, v) == InSeq(v, m.verts[t])

\* Triangle.getThirdVertex: the first vertex of the triangle that is neither
\* v1 nor v2; None (here -1, vertex 0 being a vertex) when v1 or v2 is not a
\* vertex of the triangle or no other vertex exists
NoVertex == 0 - 1

getThirdVertex(m, t, v1, v2) ==
    LET vs == m.verts[t]
    IN IF ~(InSeq(v1, vs) /\ InSeq(v2, vs)) THEN NoVertex
       ELSE IF \E i \in 1..3 : vs[i] # v1 /\ vs[i] # v2
            THEN vs[CHOOSE i \in 1..3 : /\ vs[i] # v1 /\ vs[i] # v2
                                        /\ \A j \in 1..(i - 1) : vs[j] = v1 \/ vs[j] = v2]
       ELSE NoVertex

\* Triangle.getSharedEdge: the first edge of t that is also an edge of other
getSharedEdge(m, t, other) ==
    LET es == m.tedges[t]
    IN IF \E i \in 1..Len(es) : InSeq(es[i], m.tedges[other])
       THEN es[CHOOSE i \in 1..Len(es) : /\ InSeq(es[i], m.tedges[other])
                                          /\ \A j \in 1..(i - 1) : ~InSeq(es[j], m.tedges[other])]
       ELSE None

\* Triangle.availableNeighbours: the unused entries of t.neighbours, in order
availableNeighbours(m, u, t) == SelectSeq(m.neighbours[t], LAMBDA x : ~u[x])

\* Vertex.availableTris: number of unused triangles the vertex is part of
availableTris(m, u, v) == Cardinality({t \in 1..Len(m.verts) : ~u[t] /\ InSeq(v, m.verts[t])})

\* Triangle.getNextStripTriSeq: the other unused triangle on the edge
\* prevVert-curVert.  The edge must exist (the source dereferences it).
getNextStripTriSeq(m, u, t, prevVert, curVert) ==
    LET e == isConnectedWith(m, prevVert, curVert)
        ts == IF e = None THEN <<>> ELSE SelectSeq(m.edges[e].triangles, LAMBDA x : x # t /\ ~u[x])
    IN IF ts = <<>> THEN None ELSE Head(ts)

\* Triangle.getNextStripTri(prevVert, curVert); hasBase is
\* "prevVert is not None and curVert is not None"
baseWeight(m, u, t, x, hasBase, prevVert, curVert) ==
    LET w == Len(availableNeighbours(m, u, x))
    IN IF hasBase
       THEN IF hasVertex(m, x, curVert) THEN w - 1 ELSE w + 1
       ELSE w

vConnectionOf(m, u, t, x, hasBase, prevVert, curVert) ==
    IF hasBase
    THEN IF hasVertex(m, x, curVert) THEN availableTris(m, u, prevVert)
                                     ELSE availableTris(m, u, curVert)
    ELSE LET eVerts == m.edges[getSharedEdge(m, x, t)].vertices
         IN availableTris(m, u, eVerts[1]) + availableTris(m, u, eVerts[2]) - 2

RECURSIVE MaxOfSeq(_)
MaxOfSeq(s) == IF s = <<>> THEN 0 ELSE Max(Head(s), MaxOfSeq(Tail(s)))

\* the loop "for i in range(1, len(trisToUse))" that keeps the lowest weight
RECURSIVE lowestWeight(_, _, _, _, _, _, _)
lowestWeight(m, trisToUse, weights, hasBase, curVert, index, i) ==
    IF i > Len(trisToUse) THEN index
    ELSE IF \/ weights[i] < weights[index]
            \/ (hasBase /\ weights[i] = weights[index] /\ hasVertex(m, trisToUse[i], curVert))
         THEN lowestWeight(m, trisToUse, weights, hasBase, curVert, i, i + 1)
         ELSE lowestWeight(m, trisToUse, weights, hasBase, curVert, index, i + 1)

getNextStripTri(m, u, t, hasBase, prevVert, curVert) ==
    LET pick(trisToUse, n) ==
          LET dead == {i \in 1..n : Len(availableNeighbours(m, u, trisToUse[i])) = 0}
              weigh(vConnection, biggestConnection) ==
                  [i \in 1..n |->
                      baseWeight(m, u, t, trisToUse[i], hasBase, prevVert, curVert)
                      + (IF vConnection[i] < biggestConnection THEN 0 - 1 ELSE 1)]
              byWeight(vConnection) ==
                  trisToUse[lowestWeight(m, trisToUse, weigh(vConnection, MaxOfSeq(vConnection)),
                                         hasBase, curVert, 1, 2)]
          IN IF n = 0 THEN None
             ELSE IF n = 1 THEN trisToUse[1]
             ELSE IF dead # {} THEN trisToUse[CHOOSE i \in dead : \A j \in dead : i <= j]
             ELSE byWeight([i \in 1..n |->
                              vConnectionOf(m, u, t, trisToUse[i], hasBase, prevVert, curVert)])
    IN pick(availableNeighbours(m, u, t), Len(availableNeighbours(m, u, t)))

\* Strippifier.brokenCullFlow: decided on the first vertex of triA that is
\* also a vertex of triB; None (falsy) when they share no vertex
brokenCullFlow(m, triA, triB) ==
    LET a == m.verts[triA]
        b == m.verts[triB]
        prev(i) == IF i = 1 THEN 3 ELSE i - 1
    IN IF \E i \in 1..3 : InSeq(a[i], b)
       THEN LET tt == CHOOSE i \in 1..3 : InSeq(a[i], b) /\ \A j \in 1..(i - 1) : ~InSeq(a[j], b)
                t == IndexOf(a[tt], b)
            IN b[prev(t)] = a[prev(tt)]
       ELSE FALSE

\* ------------------------------------------------------------------------
\* UV index list of the call   (Triangle.__init__ 112-116)
\* ------------------------------------------------------------------------
\* uvMode "none"  : no uv_list is passed
\*        "split" : the caller passes the loop indices of the polygons, so
\*                  every corner has a uv index of its own (3 * triangle + corner)
NoUv == 0 - 1

uv_list(uvMode, triList) ==
    IF uvMode = "none" THEN <<>>
    ELSE [i \in 1..Len(triList) |-> [c \in 1..3 |-> 3 * (i - 1) + (c - 1)]]

\* tri.uv_indices[v]: the dictionary maps the index of each vertex of the
\* triangle to the uv index of that corner; NoUv stands for a KeyError
uv_indices(m, uvMode, t, v) ==
    IF InSeq(v, m.verts[t])
    THEN uv_list(uvMode, m.verts)[t][IndexOf(v, m.verts[t])]
    ELSE NoUv

\* ------------------------------------------------------------------------
\* Strippifier   (strippifier.py 293-604)
\* ------------------------------------------------------------------------
\* The fields of self that a run of Strippify updates are carried in a record
\*   [used, written, strips, normal_strips, uv_strips, err]
\* err names the exception raised ("" when none).

\* Strippifier.addZTriangle; hasUv is self.has_uv_list
addZTriangle(m, S, tri, hasUv, uvMode) ==
    LET v == m.verts[tri]
    IN IF hasUv /\ uvMode = "none"
       THEN \* tri.uv_indices was never assigned
            [S EXCEPT !.strips = Append(@, <<v[1], v[3], v[2]>>),
                      !.normal_strips = Append(@, <<v[1], v[3], v[2]>>),
                      !.err = "AttributeError"]
       ELSE [S EXCEPT !.strips = Append(@, <<v[1], v[3], v[2]>>),
                      !.normal_strips = Append(@, <<v[1], v[3], v[2]>>),
                      !.uv_strips = IF hasUv
                                    THEN Append(@, <<uv_indices(m, uvMode, tri, v[1]),
                                                     uv_indices(m, uvMode, tri, v[3]),
                                                     uv_indices(m, uvMode, tri, v[2])>>)
                                    ELSE @,
                      !.written = @ + 1,
                      !.used[tri] = TRUE]

\* Strippifier.getFirstTri, from triangle i on; yields <<S, resultTri>>
RECURSIVE getFirstTriFrom(_, _, _, _, _, _, _)
getFirstTriFrom(m, S, hasUv, uvMode, i, curNCount, resultTri) ==
    IF S.err # "" \/ i > Len(m.verts) THEN <<S, resultTri>>
    ELSE IF S.used[i] THEN getFirstTriFrom(m, S, hasUv, uvMode, i + 1, curNCount, resultTri)
    ELSE LET tnCount == Len(availableNeighbours(m, S.used, i))
         IN IF tnCount = 0
            THEN getFirstTriFrom(m, addZTriangle(m, S, i, hasUv, uvMode), hasUv, uvMode,
                                 i + 1, curNCount, resultTri)
            ELSE IF tnCount < curNCount
                 THEN IF tnCount = 1 THEN <<S, i>>
                      ELSE getFirstTriFrom(m, S, hasUv, uvMode, i + 1, tnCount, i)
                 ELSE getFirstTriFrom(m, S, hasUv, uvMode, i + 1, curNCount, resultTri)

\* faulty variant: the first unused triangle that has an unused neighbour is
\* returned, whatever the number of its unused neighbours
getFirstTri_anyCount(m, S, hasUv, uvMode) ==
    LET g == getFirstTriFrom(m, S, hasUv, uvMode, 1, curNCount_initial, None)
        open == {t \in 1..Len(m.verts) :
                    ~g[1].used[t] /\ Len(availableNeighbours(m, g[1].used, t)) > 0}
    IN IF open = {} THEN g ELSE <<g[1], CHOOSE t \in open : \A x \in open : t <= x>>

getFirstTri(m, S, hasUv, uvMode) ==
    getFirstTriFrom(m, S, hasUv, uvMode, 1, curNCount_initial, None)

\* One pass of the loop "while not reachedEnd" (493-566).  L holds the locals
\* of Strippify together with self.strip, self.normal_strip, self.uv_strip:
\*   [S, strip, normal_strip, uv_strip, uvAttr, prevVert, currentVert,
\*    currentTri, newTri, oldTri, secNewTri, firstTri, reachedEnd,
\*    reversedList, didReverse]
\* o holds the arguments [uvMode, doSwaps, raiseTopoError].
growAppend(m, L, o) ==
    \* 496-503: writing the next index
    IF L.currentVert = NoVertex
    THEN [L EXCEPT !.S.err = "AttributeError"]
    ELSE IF o.uvMode # "none" /\ uv_indices(m, o.uvMode, L.currentTri, L.currentVert) = NoUv
    THEN [L EXCEPT !.strip = Append(@, L.currentVert),
                   !.normal_strip = Append(@, L.currentVert),
                   !.S.err = "KeyError"]
    ELSE [L EXCEPT !.strip = Append(@, L.currentVert),
                   !.normal_strip = Append(@, L.currentVert),
                   !.uv_strip = IF o.uvMode # "none"
                                THEN Append(@, uv_indices(m, o.uvMode, L.currentTri, L.currentVert))
                                ELSE @,
                   !.S.written = @ + 1]

growReverse(m, L, o) ==
    \* 507-532: the strip ended; reverse it once when the first triangle
    \* still has an unused neighbour
    LET turn(pv, cv, nt) ==
          IF ~o.doSwaps /\ nt = None
          THEN [L EXCEPT !.reversedList = TRUE, !.prevVert = pv, !.currentVert = cv,
                         !.newTri = nt, !.reachedEnd = TRUE]
          ELSE IF o.uvMode = "none" /\ ~L.uvAttr
          THEN \* self.uv_strip.reverse() on an object that has no uv_strip
               [L EXCEPT !.reversedList = TRUE, !.prevVert = pv, !.currentVert = cv,
                         !.newTri = nt, !.strip = Reverse(@), !.S.err = "AttributeError"]
          ELSE [L EXCEPT !.reversedList = TRUE, !.prevVert = pv, !.currentVert = cv,
                         !.newTri = nt,
                         !.strip = Reverse(@),
                         !.uv_strip = Reverse(@),
                         !.firstTri = L.currentTri,
                         !.currentTri = L.firstTri,
                         !.didReverse = TRUE]
    IN IF ~L.reversedList /\ Len(availableNeighbours(m, L.S.used, L.firstTri)) > 0
       THEN turn(L.strip[2], L.strip[1],
                 IF o.doSwaps
                 THEN getNextStripTri(m, L.S.used, L.firstTri, TRUE, L.strip[2], L.strip[1])
                 ELSE getNextStripTriSeq(m, L.S.used, L.firstTri, L.strip[2], L.strip[1]))
       ELSE [L EXCEPT !.reachedEnd = TRUE]

growAdvance(m, L, o) ==
    \* 535-566: optional swap, then move on to newTri
    LET move(L1, sec, nextVert) ==
          IF nextVert = NoVertex
          THEN [L1 EXCEPT !.reachedEnd = TRUE]
          ELSE [L1 EXCEPT !.prevVert = L1.currentVert,
                          !.currentVert = nextVert,
                          !.oldTri = L1.currentTri,
                          !.currentTri = L1.newTri,
                          !.S.used[L1.newTri] = TRUE,
                          !.newTri = IF brokenCullFlow(m, L1.currentTri, L1.newTri) THEN None
                                     ELSE IF o.doSwaps THEN sec
                                     ELSE getNextStripTriSeq(m, [L1.S.used EXCEPT ![L1.newTri] = TRUE],
                                                             L1.newTri, L1.currentVert, nextVert)]
        swapped(L1, sec) ==
          move(L1, sec, getThirdVertex(m, L1.newTri, L1.prevVert, L1.currentVert))
        look(sec) ==
          IF o.doSwaps /\ sec # None /\ ~hasVertex(m, sec, L.currentVert)
          THEN swapped([L EXCEPT !.secNewTri = sec,
                                 !.strip = Append(@, L.prevVert),
                                 !.prevVert = L.currentVert,
                                 !.currentVert = L.prevVert], sec)
          ELSE swapped([L EXCEPT !.secNewTri = sec], sec)
    IN look(IF o.doSwaps
            THEN getNextStripTri(m, L.S.used, L.newTri, TRUE, L.prevVert, L.currentVert)
            ELSE L.secNewTri)

growIter(m, L, o) ==
    LET ended(L2) == IF L2.S.err # "" \/ L2.reachedEnd THEN L2 ELSE growAdvance(m, L2, o)
        written1(L1) ==
          IF L1.S.err # "" THEN L1
          ELSE IF L1.newTri = None THEN ended(growReverse(m, L1, o))
          ELSE growAdvance(m, L1, o)
    IN written1(growAppend(m, L, o))

RECURSIVE growStrip(_, _, _)
growStrip(m, L, o) ==
    IF L.reachedEnd \/ L.S.err # "" THEN L ELSE growStrip(m, growIter(m, L, o), o)

\* Faulty variant of windingFix: the reversed-triangle check is left out and
\* the strip joins the result as it was grown
windingFix_unchecked(m, L, o) ==
    [L.S EXCEPT !.strips = Append(@, L.strip),
                !.normal_strips = Append(@, L.normal_strip),
                !.uv_strips = IF o.uvMode # "none" THEN Append(@, L.uv_strip) ELSE @]

\* 568-583: "checking if the triangle is reversed", then the strip joins the result
windingFix(m, L, o) ==
    LET fv == m.verts[L.firstTri]
        hit == {i \in 1..3 : L.strip[i] = fv[1]}
        i0 == CHOOSE i \in hit : \A j \in hit : i <= j
        dup == hit # {} /\ fv[2] = L.strip[IF i0 = 3 THEN 1 ELSE i0 + 1]
        strip == IF dup THEN Insert0(L.strip, L.strip[1]) ELSE L.strip
        nstrip == IF dup THEN Insert0(L.normal_strip, L.normal_strip[1]) ELSE L.normal_strip
        ustrip == IF dup /\ o.uvMode # "none" THEN Insert0(L.uv_strip, L.uv_strip[1]) ELSE L.uv_strip
    IN [L.S EXCEPT !.strips = Append(@, strip),
                   !.normal_strips = Append(@, nstrip),
                   !.uv_strips = IF o.uvMode # "none" THEN Append(@, ustrip) ELSE @]

\* One pass of the loop "while self.written != triCount" (378-586), started
\* with the fields S of self, the local firstTri = ft, self.has_uv_list =
\* hasUv and uvAttr (TRUE when self.uv_strip exists).
\* Yields [S, firstTri, uvAttr, didReverse].
stripNext(m, S, o, hasUv, uvAttr, didReverse) ==
    \* "firstTri = self.getFirstTri()" followed by "continue" / the loop end
    LET g == getFirstTri(m, S, hasUv, o.uvMode)
    IN [S |-> g[1], firstTri |-> g[2], uvAttr |-> uvAttr, didReverse |-> didReverse]

stripFailed(S, ft, uvAttr, e) ==
    [S |-> [S EXCEPT !.err = e], firstTri |-> ft, uvAttr |-> uvAttr, didReverse |-> FALSE]

\* Faulty variant of stripTwoTriangles: the two shared vertices are written
\* in the other order
stripTwoTriangles_swapped(m, S, o, hasUv, uvAttr, currentTri, newTri, sharedVerts, prevVert) ==
    LET currentVert == sharedVerts[1]
        nextVert == sharedVerts[2]
        thirdVertex == getThirdVertex(m, newTri, currentVert, nextVert)
        S1 == [S EXCEPT !.strips = Append(@, <<prevVert, currentVert, nextVert, thirdVertex>>),
                        !.normal_strips = Append(@, <<prevVert, currentVert, nextVert, thirdVertex>>),
                        !.uv_strips = IF o.uvMode # "none"
                                      THEN Append(@, <<uv_indices(m, o.uvMode, currentTri, prevVert),
                                                       uv_indices(m, o.uvMode, currentTri, currentVert),
                                                       uv_indices(m, o.uvMode, currentTri, nextVert),
                                                       uv_indices(m, o.uvMode, newTri, thirdVertex)>>)
                                      ELSE @,
                        !.written = @ + 2]
    IN IF thirdVertex = NoVertex
       THEN stripFailed(S, currentTri, uvAttr, "AttributeError")
       ELSE stripNext(m, S1, o, hasUv, uvAttr, FALSE)

stripTwoTriangles(m, S, o, hasUv, uvAttr, currentTri, newTri, sharedVerts, prevVert) ==
    \* 412-452: only two triangles in the strip
    LET currentVert == sharedVerts[2]
        nextVert == sharedVerts[1]
        thirdVertex == getThirdVertex(m, newTri, currentVert, nextVert)
        S1 == [S EXCEPT !.strips = Append(@, <<prevVert, currentVert, nextVert, thirdVertex>>),
                        !.normal_strips = Append(@, <<prevVert, currentVert, nextVert, thirdVertex>>),
                        !.uv_strips = IF o.uvMode # "none"
                                      THEN Append(@, <<uv_indices(m, o.uvMode, currentTri, prevVert),
                                                       uv_indices(m, o.uvMode, currentTri, currentVert),
                                                       uv_indices(m, o.uvMode, currentTri, nextVert),
                                                       uv_indices(m, o.uvMode, newTri, thirdVertex)>>)
                                      ELSE @,
                        !.written = @ + 2]
    IN IF thirdVertex = NoVertex
       THEN stripFailed(S, currentTri, uvAttr, "AttributeError")
       ELSE stripNext(m, S1, o, hasUv, uvAttr, FALSE)

stripLong(m, S, o, hasUv, uvAttr, currentTri, newTri, secNewTri, sharedVerts, prevVert) ==
    \* 454-586: a strip of three or more triangles
    LET finish(L) ==
          IF L.S.err # ""
          THEN [S |-> L.S, firstTri |-> L.firstTri, uvAttr |-> L.uvAttr, didReverse |-> L.didReverse]
          ELSE stripNext(m, windingFix(m, L, o), o, hasUv, L.uvAttr, L.didReverse)
        base(currentVert, nextVert, uvOn) ==
          [S |-> [S EXCEPT !.written = @ + 1],
           strip |-> <<prevVert, currentVert, nextVert>>,
           normal_strip |-> <<prevVert, currentVert, nextVert>>,
           uv_strip |-> IF uvOn
                        THEN <<uv_indices(m, o.uvMode, currentTri, prevVert),
                               uv_indices(m, o.uvMode, currentTri, currentVert),
                               uv_indices(m, o.uvMode, currentTri, nextVert)>>
                        ELSE <<>>,
           uvAttr |-> uvAttr \/ uvOn,
           prevVert |-> nextVert,
           currentVert |-> getThirdVertex(m, newTri, currentVert, nextVert),
           currentTri |-> newTri,
           newTri |-> IF brokenCullFlow(m, newTri, secNewTri) THEN None ELSE secNewTri,
           oldTri |-> currentTri,
           secNewTri |-> secNewTri,
           firstTri |-> currentTri,
           reachedEnd |-> FALSE,
           reversedList |-> FALSE,
           didReverse |-> FALSE]
    IN IF hasVertex(m, secNewTri, sharedVerts[1])
       THEN finish(growStrip(m, base(sharedVerts[2], sharedVerts[1], o.uvMode # "none"), o))
       ELSE finish(growStrip(m, base(sharedVerts[1], sharedVerts[2], o.uvMode # "none"), o))

stripIteration(m, S, ft, o, hasUv, uvAttr) ==
    LET second(S2, currentTri, newTri, sharedVerts, prevVert, secNewTri) ==
          IF prevVert = NoVertex
          THEN stripFailed(S2, ft, uvAttr, "AttributeError")
          ELSE IF secNewTri = None
          THEN stripTwoTriangles(m, S2, o, hasUv, uvAttr, currentTri, newTri, sharedVerts, prevVert)
          ELSE stripLong(m, S2, o, hasUv, uvAttr, currentTri, newTri, secNewTri, sharedVerts, prevVert)
        shared(S2, currentTri, newTri, sharedVerts) ==
          second(S2, currentTri, newTri, sharedVerts,
                 getThirdVertex(m, currentTri, sharedVerts[1], sharedVerts[2]),
                 getNextStripTri(m, S2.used, newTri, FALSE, NoVertex, NoVertex))
        first(S1, currentTri, newTri) ==
          IF newTri = None
          THEN \* "newTri.used = True" on None
               stripFailed(S1, ft, uvAttr, "AttributeError")
          ELSE IF brokenCullFlow(m, currentTri, newTri)
          THEN \* 386-391
               stripNext(m, addZTriangle(m, S1, currentTri, hasUv, o.uvMode), o, hasUv, uvAttr, FALSE)
          ELSE shared([S1 EXCEPT !.used[newTri] = TRUE], currentTri, newTri,
                      m.edges[getSharedEdge(m, currentTri, newTri)].vertices)
    IN IF ft = None
       THEN \* "currentTri.used = True" on None
            stripFailed(S, ft, uvAttr, "AttributeError")
       ELSE first([S EXCEPT !.used[ft] = TRUE], ft,
                  getNextStripTri(m, [S EXCEPT !.used[ft] = TRUE].used, ft, FALSE, NoVertex, NoVertex))

\* 588-597: stitching all strips into one (concat = True); the first strip
\* is extended in place
RECURSIVE stitch(_, _, _)
stitch(res, ss, i) ==
    IF i > Len(ss) THEN res
    ELSE LET before == IF i = 2 THEN res ELSE ss[i - 1]
         IN stitch(res \o <<before[Len(before)], ss[i][1]>> \o ss[i], ss, i + 1)

\* ------------------------------------------------------------------------
\* Inputs
\* ------------------------------------------------------------------------
\* vertex indices any explored list may use
Verts == 0..(Max(NumVerts, NumSurfaceVerts) - 1)

\* the vertex indices an index list uses
usedVerts(tl) == UNION {Range(tl[i]) : i \in 1..Len(tl)}

\* number of triangles of tl that contain both a and b
edgeUse(tl, a, b) == Cardinality({i \in 1..Len(tl) : {a, b} \subseteq Range(tl[i])})

\* every edge is shared by at most two triangles
Manifold(tl) == \A a, b \in Verts : a # b => edgeUse(tl, a, b) <= 2

\* number of triangles of tl that traverse the edge from a to b
edgeDir(tl, a, b) ==
    Cardinality({i \in 1..Len(tl) : \E c \in 1..3 : tl[i][c] = a /\ tl[i][(c % 3) + 1] = b})

\* consistently wound: no directed edge is traversed by two triangles
Wound(tl) == \A a, b \in Verts : a # b => edgeDir(tl, a, b) <= 1

\* every triangle after the first shares an edge with an earlier one
Connected(tl) ==
    \A i \in 2..Len(tl) : \E j \in 1..(i - 1) :
        Cardinality(Range(tl[i]) \cap Range(tl[j])) >= 2

\* A polygon of a triangulated mesh has three distinct vertices.  Strippify
\* only compares vertex indices for equality, so index lists are explored up
\* to renaming of vertices: a vertex index first appears after all smaller ones.
Polygons(tl) ==
    LET n == Cardinality(usedVerts(tl))
    IN {t \in Verts \X Verts \X Verts :
          /\ t[1] # t[2] /\ t[2] # t[3] /\ t[1] # t[3]
          /\ t[1] <= n
          /\ t[2] <= Max(n, t[1] + 1)
          /\ t[3] <= Max(Max(n, t[1] + 1), t[2] + 1)}

\* every triangle is stored starting at its lowest vertex index (one
\* representative of each cyclic order)
LowestFirst(tl) == \A i \in 1..Len(tl) : tl[i][1] < tl[i][2] /\ tl[i][1] < tl[i][3]

\* The explored index lists: every list of up to MaxTris triangles and every
\* manifold list of up to MaxManifoldTris triangles on NumVerts vertices, and
\* every consistently wound, edge-connected manifold surface of up to
\* MaxSurfaceTris triangles on NumSurfaceVerts vertices whose triangles are
\* stored lowest index first.
InputOK(tl) ==
    \/ /\ usedVerts(tl) \subseteq 0..(NumVerts - 1)
       /\ \/ Len(tl) <= MaxTris
          \/ Len(tl) <= MaxManifoldTris /\ Manifold(tl)
    \/ /\ usedVerts(tl) \subseteq 0..(NumSurfaceVerts - 1)
       /\ Len(tl) <= MaxSurfaceTris
       /\ Manifold(tl) /\ Wound(tl) /\ Connected(tl) /\ LowestFirst(tl)

UvModes == {"none", "split"}
RaiseArgs == {"omitted", "True"}
Options == [uvMode : UvModes, doSwaps : BOOLEAN, raiseTopoError : RaiseArgs]
NoOptions == [uvMode |-> "none", doSwaps |-> FALSE, raiseTopoError |-> "omitted"]

\* the value the parameter raiseTopoError has in the call
raiseTopoError(o) == IF o.raiseTopoError = "omitted" THEN raiseTopoError_default ELSE TRUE

\* ------------------------------------------------------------------------
\* State machine of one Strippifier object
\* ------------------------------------------------------------------------
SInit ==
    /\ face_indices = <<>>
    /\ opts = NoOptions
    /\ pc = "caller"
    /\ error = ""
    /\ mesh = EmptyMesh
    /\ used = <<>>
    /\ written = 0
    /\ strips = <<>>
    /\ normal_strips = <<>>
    /\ uv_strips = <<>>
    /\ firstTri = None
    /\ has_uv_list = has_uv_list_initial
    /\ uv_strip_attr = FALSE
    /\ raiseTopoErrorG = raiseTopoErrorG_initial
    /\ reversals = 0
    /\ result = <<>>

Fields == [used |-> used, written |-> written, strips |-> strips,
           normal_strips |-> normal_strips, uv_strips |-> uv_strips, err |-> ""]

\* Strippify 365-368: the fields reset at the start of a call
FreshFields(n) ==
    [used |-> [i \in 1..n |-> FALSE], written |-> 0,
     strips |-> <<>>, normal_strips |-> <<>>, uv_strips |-> <<>>, err |-> ""]

\* write_meshdata_faces 623-626 / 669-672: the caller collects the vertex
\* indices of the next polygon
AppendPolygon ==
    /\ pc = "caller"
    /\ \E t \in Polygons(face_indices) :
          /\ InputOK(Append(face_indices, t))
          /\ face_indices' = Append(face_indices, t)
    /\ UNCHANGED <<opts, pc, error, mesh, used, written, strips, normal_strips,
                   uv_strips, firstTri, has_uv_list, uv_strip_attr,
                   raiseTopoErrorG, reversals, result>>
    /\ UNCHANGED <<fvars, wvars>>

\* Strippify 352-368: the graph is built, the result lists are reset and the
\* first triangle is picked
StrippifyEnter ==
    /\ pc = "caller"
    /\ Len(face_indices) >= 1
    /\ \E o \in Options :
        \E m \in {Mesh_init(face_indices, raiseTopoError(o))} :
        \E hasUv \in {IF o.uvMode # "none" THEN TRUE ELSE has_uv_list} :
        \E g \in {getFirstTri(m, FreshFields(Len(face_indices)), hasUv, o.uvMode)} :
           /\ opts' = o
           /\ raiseTopoErrorG' = raiseTopoError(o)
           /\ mesh' = m
           /\ IF m.raised
              THEN /\ pc' = "raised"
                   /\ error' = "TopologyError"
                   /\ UNCHANGED <<used, written, strips, normal_strips, uv_strips,
                                  firstTri, has_uv_list>>
              ELSE /\ has_uv_list' = hasUv
                   /\ used' = g[1].used
                   /\ written' = g[1].written
                   /\ strips' = g[1].strips
                   /\ normal_strips' = g[1].normal_strips
                   /\ uv_strips' = g[1].uv_strips
                   /\ firstTri' = g[2]
                   /\ error' = g[1].err
                   /\ pc' = IF g[1].err # "" THEN "raised" ELSE "loop"
    /\ UNCHANGED <<face_indices, uv_strip_attr, reversals, result>>
    /\ UNCHANGED <<fvars, wvars>>

\* Strippify 370-586: one strip (or one Z-triangle of a broken cull flow)
StripIteration ==
    /\ pc = "loop"
    /\ written # Len(mesh.verts)
    /\ \E r \in {stripIteration(mesh, Fields, firstTri, opts, has_uv_list, uv_strip_attr)} :
          /\ used' = r.S.used
          /\ written' = r.S.written
          /\ strips' = r.S.strips
          /\ normal_strips' = r.S.normal_strips
          /\ uv_strips' = r.S.uv_strips
          /\ firstTri' = r.firstTri
          /\ uv_strip_attr' = r.uvAttr
          /\ reversals' = IF r.didReverse THEN reversals + 1 ELSE reversals
          /\ error' = r.S.err
          /\ pc' = IF r.S.err # "" THEN "raised" ELSE "loop"
    /\ UNCHANGED <<face_indices, opts, mesh, has_uv_list, raiseTopoErrorG, result>>
    /\ UNCHANGED <<fvars, wvars>>

\* Strippify 588-604: the loop condition is false, the strips are returned
StrippifyReturn ==
    /\ pc = "loop"
    /\ written = Len(mesh.verts)
    /\ \E concat \in BOOLEAN :
        LET res == IF concat THEN <<stitch(strips[1], strips, 2)>> ELSE strips
        IN /\ strips' = IF concat THEN [strips EXCEPT ![1] = res[1]] ELSE strips
           /\ result' = [concat |-> concat, strips |-> res, normal_strips |-> normal_strips,
                         uv_strips |-> uv_strips, with_uv |-> (opts.uvMode # "none")]
    /\ pc' = "returned"
    /\ UNCHANGED <<face_indices, opts, error, mesh, used, written, normal_strips,
                   uv_strips, firstTri, has_uv_list, uv_strip_attr,
                   raiseTopoErrorG, reversals>>
    /\ UNCHANGED <<fvars, wvars>>

\* ========================================================================
\* Properties of Strippify
\* ========================================================================
\* the triangle that the window starting at position k of strip s denotes
\* under the alternating-winding rule (the first window is window 0)
windowTri(s, k) ==
    IF (k - 1) % 2 = 0 THEN <<s[k], s[k + 1], s[k + 2]>> ELSE <<s[k + 1], s[k], s[k + 2]>>

\* the windows <<strip, position>> of a list of strips that have no repeated index
windowsOf(ss) ==
    {w \in (1..Len(ss)) \X (1..(3 * MaxSurfaceTris + 3)) :
        /\ w[2] + 2 <= Len(ss[w[1]])
        /\ Cardinality({ss[w[1]][w[2]], ss[w[1]][w[2] + 1], ss[w[1]][w[2] + 2]}) = 3}

sameCyclic(a, b) == b \in {a, <<a[2], a[3], a[1]>>, <<a[3], a[1], a[2]>>}

flipped(t) == <<t[1], t[3], t[2]>>

\* each input triangle appears exactly once among the windows of the strips
Covered(ss, tl) ==
    \A X \in {Range(tl[i]) : i \in 1..Len(tl)} \cup
             {Range(windowTri(ss[w[1]], w[2])) : w \in windowsOf(ss)} :
        Cardinality({w \in windowsOf(ss) : Range(windowTri(ss[w[1]], w[2])) = X})
            = Cardinality({i \in 1..Len(tl) : Range(tl[i]) = X})

finished == pc \in {"returned", "raised"}

\* Strippify(indices) or Strippify(indices, uv_list): nothing else is passed
defaultCall == ~opts.doSwaps /\ opts.raiseTopoError = "omitted"

\* C1: for a manifold index list and default options Strippify returns
\* strips whose windows are exactly the input triangles, each exactly once
C1_Coverage ==
    (finished /\ defaultCall /\ Manifold(face_indices))
        => /\ pc = "returned"
           /\ (~result.concat => Covered(result.strips, face_indices))

\* C2: with raiseTopoError = True an index list with an edge in three or
\* more triangles makes Strippify raise TopologyError while the graph is
\* built: no edge ever holds a third triangle, nothing was written, no strip
\* exists and nothing is returned
C2_StrictRejects ==
    (pc # "caller" /\ opts.raiseTopoError = "True" /\ ~Manifold(face_indices))
        => /\ pc = "raised" /\ error = "TopologyError"
           /\ \A e \in 1..Len(mesh.edges) : Len(mesh.edges[e].triangles) <= 2
           /\ written = 0
           /\ strips = <<>> /\ normal_strips = <<>> /\ uv_strips = <<>>
           /\ result = <<>>

\* a strict call was rejected while an edge held two triangles
C2_Witness ==
    /\ pc = "raised" /\ error = "TopologyError"
    /\ opts.raiseTopoError = "True" /\ ~Manifold(face_indices)
    /\ \E e \in 1..Len(mesh.edges) : Len(mesh.edges[e].triangles) = 2

\* C3: a call that does not pass raiseTopoError raises TopologyError on an
\* index list with an edge in three or more triangles
C3_DefaultRaises ==
    (pc # "caller" /\ opts.raiseTopoError = "omitted" /\ ~Manifold(face_indices))
        => (pc = "raised" /\ error = "TopologyError")

surfaceResult ==
    /\ pc = "returned" /\ ~result.concat
    /\ Manifold(face_indices) /\ Wound(face_indices)

\* C4 as stated: every triangle reconstructed from a returned strip of a
\* manifold, consistently wound list has the cyclic order of a source triangle
C4_WindingPreserved ==
    surfaceResult =>
        \A w \in windowsOf(result.strips) : \E i \in 1..Len(face_indices) :
            sameCyclic(windowTri(result.strips[w[1]], w[2]), face_indices[i])

\* C4 amended: every triangle reconstructed from a returned strip (concat =
\* False) of a manifold, consistently wound list has the cyclic order
\* opposite to its source triangle: flipping it gives a source triangle
C4_WindingOpposite ==
    surfaceResult =>
        \A w \in windowsOf(result.strips) : \E i \in 1..Len(face_indices) :
            sameCyclic(flipped(windowTri(result.strips[w[1]], w[2])), face_indices[i])

\* a strip that took the reversal step and whose first index was duplicated
C4_Witness ==
    /\ surfaceResult
    /\ reversals > 0
    /\ \E k \in 1..Len(result.strips) : result.strips[k][1] = result.strips[k][2]

squareCall ==
    /\ pc = "returned"
    /\ face_indices = <<<<0, 1, 2>>, <<0, 2, 3>>>>
    /\ opts.uvMode = "none"

\* C5 as stated: [0,1,2, 0,2,3] without UV list gives the one strip
\* [0,1,2,3] or [3,2,1,0]
C5_SquareStrip ==
    squareCall => result.strips \in {<<<<0, 1, 2, 3>>>>, <<<<3, 2, 1, 0>>>>}

\* C5 amended: [0,1,2, 0,2,3] without UV list gives exactly one strip, of 4
\* vertex indices, equal to [1,0,2,3]
C5_SquareStripActual ==
    squareCall => /\ result.strips = <<<<1, 0, 2, 3>>>>
                  /\ result.normal_strips = <<<<1, 0, 2, 3>>>>

\* the square was strippified by a call with default options
C5_Witness == squareCall /\ defaultCall /\ ~result.concat

\* C6: in every result with concat = False the k-th vertex, normal and (with
\* a UV list) uv strips have the same length, at least 3, and the lists of
\* strips have the same number of entries
C6_Shape ==
    (pc = "returned" /\ ~result.concat)
        => /\ Len(result.normal_strips) = Len(result.strips)
           /\ result.with_uv => Len(result.uv_strips) = Len(result.strips)
           /\ \A k \in 1..Len(result.strips) :
                /\ Len(result.strips[k]) >= 3
                /\ Len(result.normal_strips[k]) = Len(result.strips[k])
                /\ result.with_uv => Len(result.uv_strips[k]) = Len(result.strips[k])

\* ========================================================================
\* File   (nn.py 140-270; nn_model.py 129-275 has the same methods)
\* ========================================================================
\* The file object is a record [data, pos]: data is the sequence of bytes of
\* the file, pos the current position (0-based, as tell() reports it).
\* A File together with the GNO it writes for is the record
\*   [data, pos, NOF0_offsets].

\* single-precision bit patterns of the float literals of the writer
\* default_bounds = Bounds((1.19209e-07, 0.45939, 0), 0.947298)
f32_bounds_x == 872415191
f32_bounds_y == 1055601963
f32_bounds_scale == 1064469023
\* the default material colour 0.7529412508010864
f32_color == 1061208258
\* 1.0 (default alpha, texture scale)
f32_1_0 == 1065353216
\* 0.9, 2.0 and 0.299999982118607 of the material body
f32_0_9 == 1063675494
f32_2_0 == 1073741824
f32_0_3 == 1050253721

\* struct.pack('>I', i) / struct.pack('>i', i)
\* (a negative i is i + 2^31 with the top bit set)
BE32(i) ==
    LET u == IF i < 0 THEN i + 2147483647 + 1 ELSE i
    IN <<(u \div 16777216) + (IF i < 0 THEN 128 ELSE 0),
         (u \div 65536) % 256, (u \div 256) % 256, u % 256>>

\* struct.pack('<I', i)
LE32(i) == <<i % 256, (i \div 256) % 256, (i \div 65536) % 256, (i \div 16777216) % 256>>

\* struct.pack('>H', h) / struct.pack('>h', h)
BE16(h) ==
    LET u == IF h < 0 THEN h + 65536 ELSE h
    IN <<(u \div 256) % 256, u % 256>>

\* struct.pack('Nx'): N zero bytes
Zeros(n) == [i \in 1..n |-> 0]

\* the 4-byte big-endian field at position p of a byte sequence
ReadBE32(data, p) ==
    data[p + 1] * 16777216 + data[p + 2] * 65536 + data[p + 3] * 256 + data[p + 4]

\* the 4-byte little-endian field at position p of a byte sequence
ReadLE32(data, p) ==
    data[p + 1] + data[p + 2] * 256 + data[p + 3] * 65536 + data[p + 4] * 16777216

\* fileobject.write(bs): the bytes replace or extend the content at pos
emit(F, bs) ==
    [F EXCEPT !.data = IF F.pos = Len(F.data)
                       THEN F.data \o bs
                       ELSE [i \in 1..Max(Len(F.data), F.pos + Len(bs)) |->
                               IF i > F.pos /\ i <= F.pos + Len(bs) THEN bs[i - F.pos]
                               ELSE IF i <= Len(F.data) THEN F.data[i]
                               ELSE 0],
              !.pos = F.pos + Len(bs)]

\* faulty variant: the position is left where it was
seek_ignored(F, p) == F

\* File.seek
seek(F, p) == [F EXCEPT !.pos = p]

\* an omitted offset argument
NoOffset == 0 - 1

\* File.write(bytes, offset): "if offset:" is false for an omitted offset
\* and for offset 0
write(F, bs, offset) ==
    IF offset # NoOffset /\ offset # 0
    THEN seek(emit(seek(F, offset), bs), F.pos)
    ELSE emit(F, bs)

\* fileobject.read(size): the bytes from pos on, at most size of them
fileobject_read(F, size) ==
    LET out == SubSeq(F.data, F.pos + 1, IF F.pos + size < Len(F.data)
                                        THEN F.pos + size ELSE Len(F.data))
    IN [out |-> out, F |-> [F EXCEPT !.pos = F.pos + Len(out)]]

\* File.read(size, offset): "if offset:" is false for an omitted offset
\* and for offset 0
read(F, size, offset) ==
    IF offset # NoOffset /\ offset # 0
    THEN LET r == fileobject_read(seek(F, offset), size)
         IN [out |-> r.out, F |-> seek(r.F, F.pos)]
    ELSE fileobject_read(F, size)

\* File.write_signed_byte: struct.pack('>b', b)
write_signed_byte(F, b) == emit(F, <<IF b < 0 THEN b + 256 ELSE b>>)

\* File.write_signed_short: struct.pack('>h', h)
write_signed_short(F, h) == emit(F, BE16(h))

\* File.write_signed_int: struct.pack('>i', i)
write_signed_int(F, i) == emit(F, BE32(i))

\* File.write_byte: struct.pack('>B', b)
write_byte(F, b) == emit(F, <<b>>)

\* File.write_short: struct.pack('>H', h)
write_short(F, h) == emit(F, BE16(h))

\* File.write_int: struct.pack('>I', i)
write_int(F, i) == emit(F, BE32(i))

\* File.write_float: struct.pack('>f', f); a float is kept as its IEEE-754
\* single-precision bit pattern
write_float(F, bits) == emit(F, BE32(bits))

\* File.write_int_NOF0
write_int_NOF0_late(F, i) ==
    \* faulty variant: the position is recorded after the integer is written
    [emit(F, BE32(i)) EXCEPT !.NOF0_offsets = Append(@, F.pos + 4)]

write_int_NOF0(F, i) ==
    [emit(F, BE32(i)) EXCEPT !.NOF0_offsets = Append(@, F.pos)]

\* File.write_8bit_aligned: "while self.tell() & 0x3" writes one zero byte
\* per pass, (4 - pos % 4) % 4 passes in all
write_8bit_aligned(F) == emit(F, Zeros((4 - (F.pos % 4)) % 4))

\* File.write_32bit_aligned: "while self.tell() & 0x1F"
write_32bit_aligned_16(F) ==
    \* faulty variant: pads to a multiple of 16 only
    emit(F, Zeros((16 - (F.pos % 16)) % 16))

\* the loop writes one zero byte per pass, (32 - pos % 32) % 32 passes in all
write_32bit_aligned(F) == emit(F, Zeros((32 - (F.pos % 32)) % 32))

\* ------------------------------------------------------------------------
\* A File object driven by arbitrary calls
\* ------------------------------------------------------------------------
\* the File of the state, with its relocation table
TheFile == [data |-> fileobject.data, pos |-> fileobject.pos, NOF0_offsets |-> NOF0_offsets]

FInit ==
    /\ fileobject = [data |-> <<>>, pos |-> 0]
    /\ NOF0_offsets = <<>>
    /\ last_op = [op |-> "open"]

\* the state after a File method returned F
Returned(F, op) ==
    /\ Len(F.data) <= MaxFileLen
    /\ Len(F.NOF0_offsets) <= MaxRelocations
    /\ fileobject' = [data |-> F.data, pos |-> F.pos]
    /\ NOF0_offsets' = F.NOF0_offsets
    /\ last_op' = op
    /\ UNCHANGED <<svars, wvars>>

\* the integers written: 0x01020304 and 0
IntValues == {16909060, 0}

Blobs == {<<1, 2>>}

CallWrite ==
    /\ wpc = "idle"
    /\ \E bs \in Blobs, offset \in {NoOffset} \cup 0..MaxFileLen :
          Returned(write(TheFile, bs, offset), [op |-> "write", bytes |-> bs, offset |-> offset])

CallRead ==
    /\ wpc = "idle"
    /\ \E size \in 1..2, offset \in {NoOffset} \cup 0..MaxFileLen :
          \E r \in {read(TheFile, size, offset)} :
             Returned(r.F, [op |-> "read", size |-> size, offset |-> offset, output |-> r.out])

CallSeek ==
    /\ wpc = "idle"
    /\ \E p \in 0..Len(fileobject.data) :
          Returned(seek(TheFile, p), [op |-> "seek"])

CallWriteByte ==
    /\ wpc = "idle"
    /\ \/ Returned(write_byte(TheFile, 255), [op |-> "write_byte"])
       \/ Returned(write_signed_byte(TheFile, 0 - 1), [op |-> "write_signed_byte"])

CallWriteShort ==
    /\ wpc = "idle"
    /\ \/ Returned(write_short(TheFile, 258), [op |-> "write_short"])
       \/ Returned(write_signed_short(TheFile, 0 - 2), [op |-> "write_signed_short"])

CallWriteFloat ==
    /\ wpc = "idle"
    /\ Returned(write_float(TheFile, 16909060), [op |-> "write_float"])

CallWriteInt ==
    /\ wpc = "idle"
    /\ \E i \in IntValues : Returned(write_int(TheFile, i), [op |-> "write_int", i |-> i])

CallWriteIntNOF0 ==
    /\ wpc = "idle"
    /\ \E i \in IntValues :
          Returned(write_int_NOF0(TheFile, i), [op |-> "write_int_NOF0", i |-> i])

CallWrite8bitAligned ==
    /\ wpc = "idle"
    /\ Returned(write_8bit_aligned(TheFile), [op |-> "write_8bit_aligned"])

CallWrite32bitAligned ==
    /\ wpc = "idle"
    /\ Returned(write_32bit_aligned(TheFile), [op |-> "write_32bit_aligned"])

FNext ==
    \/ CallWrite \/ CallRead \/ CallSeek \/ CallWriteByte \/ CallWriteShort \/ CallWriteInt
    \/ CallWriteFloat
    \/ CallWriteIntNOF0 \/ CallWrite8bitAligned \/ CallWrite32bitAligned

\* ========================================================================
\* The Blender scene read by the exporter
\* ========================================================================
\* A scene is a record
\*   [include_texture_list, materials, bones, filename, meshes]
\* materials: bpy.data.materials, each a sequence of its image texture nodes
\*            [image, linked]; image is the node's image name split at the
\*            dots, or NoImage
\* bones:     the bytes of the bone blob (original_bone_data)
\* filename:  the basename of the .blend file (empty if never saved)
\* meshes:    the MESH objects of the scene, each a record
\*   [uv, vertices, normals, polygons, loop_uvs, vertex_groups, groups,
\*    bounds_position, bounds_scale, bone_group, material]
\* Normals, texture coordinates and weights are exact fractions n / One;
\* coordinates and bounds are single-precision bit patterns.

\* the denominator of the fractions
One == 128 * 256

\* faulty variant: the fraction is cut down to the integer below
round_floor(num, den) == num \div den

\* Python's round() of the fraction num / den (den > 0): ties go to even
round(num, den) ==
    LET q == num \div den
        r == num % den
    IN IF 2 * r < den THEN q
       ELSE IF 2 * r > den THEN q + 1
       ELSE IF q % 2 = 0 THEN q ELSE q + 1

\* a texture node without an image
NoImage == <<>>

\* ".gvr" / "untitled" / "gno" / ".blend" in ASCII
gvr == <<46, 103, 118, 114>>

untitled == <<117, 110, 116, 105, 116, 108, 101, 100>>

gno_ext == <<103, 110, 111>>

blend_ext == <<46, 98, 108, 101, 110, 100>>

\* str(n) for a one-digit n
digit(n) == <<48 + n>>

\* ''.join(parts)
RECURSIVE join(_)
join(parts) == IF parts = <<>> THEN <<>> ELSE Head(parts) \o join(Tail(parts))

\* get_all_materials: the name of the texture of one image node
texture_name_of(node, untitled_texture_id) ==
    IF node.image # NoImage
    THEN join(SubSeq(node.image, 1, Len(node.image) - 1)) \o gvr
    ELSE untitled \o digit(untitled_texture_id) \o gvr

\* get_all_materials: one ShaderNodeTexImage node; acc carries texture_names,
\* texture_id, untitled_texture_id and the lists of the current material
scanNode(acc, node) ==
    LET add(name) ==
            IF InSeq(name, acc.texture_names)
            THEN [acc EXCEPT !.texture_ids = Append(@, IndexOf(name, acc.texture_names) - 1)]
            ELSE [acc EXCEPT !.texture_names = Append(@, name),
                             !.texture_ids = Append(@, acc.texture_id),
                             !.texture_id = @ + 1]
        flag(a) ==
            [a EXCEPT !.texture_count = @ + 1,
                      !.untitled_texture_id = IF node.image = NoImage THEN @ + 1 ELSE @,
                      !.texture_flags = Append(@, IF node.linked THEN "reflective" ELSE "none")]
    IN flag(add(texture_name_of(node, acc.untitled_texture_id)))

RECURSIVE scanNodes(_, _, _)
scanNodes(acc, nodes, k) ==
    IF k > Len(nodes) THEN acc
    ELSE CHOOSE out \in {scanNodes(a, nodes, k + 1) : a \in {scanNode(acc, nodes[k])}} : TRUE

\* get_all_materials: one material of bpy.data.materials
scanMaterial(acc, nodes) ==
    LET close(a) ==
            [a EXCEPT !.all_materials = Append(@, [texture_count |-> a.texture_count,
                                                   texture_ids |-> a.texture_ids,
                                                   texture_flags |-> a.texture_flags])]
    IN close(scanNodes([acc EXCEPT !.texture_count = 0, !.texture_ids = <<>>,
                                   !.texture_flags = <<>>], nodes, 1))

RECURSIVE scanMaterials(_, _, _)
scanMaterials(acc, mats, k) ==
    IF k > Len(mats) THEN acc
    ELSE CHOOSE out \in {scanMaterials(a, mats, k + 1) : a \in {scanMaterial(acc, mats[k])}} : TRUE

\* get_all_materials: [all_materials, texture_names]
get_all_materials(mats) ==
    scanMaterials([texture_id |-> 0, untitled_texture_id |-> 0, all_materials |-> <<>>,
                   texture_names |-> <<>>, texture_count |-> 0, texture_ids |-> <<>>,
                   texture_flags |-> <<>>], mats, 1)

\* get_weight_painted_meshes: is the mesh collected as weight painted
is_weight_painted(m) ==
    /\ m.groups[1] # <<>>
    /\ m.vertex_groups > 1
    /\ ~(m.groups[1][1].group = 0 /\ m.groups[1][1].weight = One)

\* get_weight_painted_meshes: myVertexGroups[v] after the loop over v.groups
vertexGroupsOf(gs) ==
    IF gs = <<>> THEN <<>> ELSE <<gs[1].weight>> \o [i \in 1..Len(gs) |-> gs[i].group]

\* faulty variant: a vertex in a single group keeps the weight it has there
weightRecord_keepWeight(gv) ==
    IF gv = <<>> THEN [raised |-> TRUE, weight |-> One, bones |-> <<>>]
    ELSE IF Len(gv) < 3
    THEN [raised |-> FALSE, weight |-> gv[1], bones |-> <<gv[2], 0>>]
    ELSE [raised |-> FALSE, weight |-> gv[1], bones |-> <<gv[2], gv[3]>>]

\* get_weight_painted_meshes 954-959: the record [weight, bones] of one
\* vertex; a list shorter than 3 gets bone 0 appended and full weight; the
\* list of a vertex without groups is then [1.0] and groupVertices[1]
\* raises IndexError
weightRecord(gv) ==
    LET groupVertices == IF Len(gv) < 3 THEN [Append(gv, 0) EXCEPT ![1] = One] ELSE gv
    IN IF Len(groupVertices) < 3
       THEN [raised |-> TRUE, weight |-> groupVertices[1], bones |-> <<>>]
       ELSE [raised |-> FALSE, weight |-> groupVertices[1],
             bones |-> <<groupVertices[2], groupVertices[3]>>]

\* get_weight_painted_meshes: vert_weights / vert_bones, over all meshes
RECURSIVE get_weight_painted_meshes(_, _)
get_weight_painted_meshes(meshes, k) ==
    IF k > Len(meshes) THEN <<>>
    ELSE (IF is_weight_painted(meshes[k])
          THEN [v \in 1..Len(meshes[k].vertices) |->
                   weightRecord(vertexGroupsOf(meshes[k].groups[v]))]
          ELSE <<>>) \o get_weight_painted_meshes(meshes, k + 1)

\* the categorisation of write_new_gno_file_2: the vertex set of a mesh
vertex_set_of(m) ==
    IF ~m.uv THEN 2 ELSE IF is_weight_painted(m) THEN 3 ELSE 1

\* gno.vertex_set_N_meshes
RECURSIVE vertex_set_meshes(_, _, _)
vertex_set_meshes(meshes, n, k) ==
    IF k > Len(meshes) THEN <<>>
    ELSE (IF vertex_set_of(meshes[k]) = n THEN <<meshes[k]>> ELSE <<>>)
         \o vertex_set_meshes(meshes, n, k + 1)

\* get_mesh_uvs_with_indices_old: a loop's uv is appended to all_uvs unless
\* an equal uv is already there, and the loop gets the index of that uv;
\* new_uv_index counts the appended uvs
get_mesh_uvs_with_indices_old(m) ==
    LET loop_uvs == m.loop_uvs
        found_existing_uv(k) == \E j \in 1..(k - 1) : loop_uvs[j] = loop_uvs[k]
        appended == {k \in 1..Len(loop_uvs) : ~found_existing_uv(k)}
        new_uv_index(k) == Cardinality({j \in appended : j < k})
    IN [all_uvs |-> [n \in 1..Cardinality(appended) |->
                        loop_uvs[CHOOSE j \in appended : new_uv_index(j) = n - 1]],
        indices |-> [k \in 1..Len(loop_uvs) |->
                        new_uv_index(CHOOSE j \in appended : loop_uvs[j] = loop_uvs[k])]]

\* ========================================================================
\* write_new_gno_file_2 and its helpers   (nn.py 309-592, 1112-1524)
\* ========================================================================
\* chunk magics in ASCII
NGIF == <<78, 71, 73, 70>>

NGTL == <<78, 71, 84, 76>>

NGOB == <<78, 71, 79, 66>>

NOF0 == <<78, 79, 70, 48>>

NFN0 == <<78, 70, 78, 48>>

NEND == <<78, 69, 78, 68>>

\* (n + 31) rounded down to a multiple of 32: "(n + 31) & 0xFFFFFFE0"
align32(n) == ((n + 31) \div 32) * 32

\* the bytes of a sequence of big-endian unsigned integers / floats
ints(xs) == [i \in 1..(4 * Len(xs)) |-> BE32(xs[(i - 1) \div 4 + 1])[((i - 1) % 4) + 1]]

\* ---- NGTL ----
RECURSIVE string_table_size(_)
string_table_size(names) ==
    IF names = <<>> THEN 0 ELSE Len(Head(names)) + 1 + string_table_size(Tail(names))

calculate_NGTL_header_size(current_size, texture_names) ==
    align32(current_size + string_table_size(texture_names) + 8)

\* offset_to_texture_count_and_offsets
offset_to_texture_count(texture_names) == Len(texture_names) * 20 + 16

\* the 16 bytes of the NGTL chunk header
NGTL_header(texture_names) ==
    NGTL
    \o LE32(calculate_NGTL_header_size(offset_to_texture_count(texture_names), texture_names) - 8)
    \o BE32(offset_to_texture_count(texture_names)) \o Zeros(4)

\* string_table_offsets
string_table_offsets(texture_names) ==
    [k \in 1..Len(texture_names) |->
        offset_to_texture_count(texture_names) + 8
        + string_table_size(SubSeq(texture_names, 1, k - 1))]

\* A loop of the writer is a recursive operator; "CHOOSE out \in {loop(G, ...) :
\* G \in {pass}} : TRUE" is loop(pass, ...) with the result of the pass bound
\* to G before the next pass starts.
RECURSIVE write_NGTL_entries(_, _, _)
write_NGTL_entries(F, offsets, k) ==
    IF k > Len(offsets) THEN F
    ELSE CHOOSE out \in
           {write_NGTL_entries(G, offsets, k + 1) :
               G \in {emit(write_int_NOF0(emit(F, Zeros(4)), offsets[k]),
                           BE32(327681) \o Zeros(8))}} : TRUE

\* the names, each with its terminating zero byte, follow each other
write_names(F, names, k) ==
    emit(F, join([j \in 1..(Len(names) - k + 1) |-> names[k + j - 1] \o <<0>>]))

write_NGTL(F, texture_names, texture_name_offsets) ==
    write_32bit_aligned(
        write_names(
            write_int_NOF0(
                write_int(write_NGTL_entries(F, texture_name_offsets, 1), Len(texture_names)),
                16),
            texture_names, 1))

\* ---- NGOB header ----
generate_dummy_NGOB_header == NGOB \o Zeros(12)

\* ---- materials ----
\* the bytes of one material: the body and one block per texture
RECURSIVE texture_blocks(_, _)
texture_blocks(mat, i) ==
    IF i > Len(mat.texture_ids) THEN <<>>
    ELSE ints(<<IF mat.texture_flags[i] = "reflective" THEN 1074536452 ELSE 1074528513,
                mat.texture_ids[i]>>)
         \o <<128, 0, 0, 0>> \o ints(<<0, f32_1_0>>)
         \o texture_blocks(mat, i + 1)

material_data(mat) ==
    ints(<<16777216, f32_color, f32_color, f32_color, f32_1_0, f32_color, f32_color,
           f32_color, f32_0_9, f32_0_9, f32_0_9, f32_2_0, f32_0_3,
           1, 4, 5, 5, 2, 0, 6, 7, 0, 0>>)
    \o (IF mat.texture_count > 0 THEN texture_blocks(mat, 1) ELSE <<>>)

\* texture_count_int = 1 + sum of 1 << (count + 1) for count in range(n)
RECURSIVE texture_count_int(_)
texture_count_int(n) == IF n = 0 THEN 1 ELSE 2 ^ n + texture_count_int(n - 1)

\* first loop of write_materials: [file, material_offsets]
RECURSIVE write_material_bodies(_, _, _)
write_material_bodies(r, materials, k) ==
    IF k > Len(materials) THEN r
    ELSE CHOOSE out \in
           {write_material_bodies(x, materials, k + 1) :
               x \in {[file |-> emit(r.file, material_data(materials[k])),
                       material_offsets |-> Append(r.material_offsets, r.file.pos)]}} : TRUE

\* second loop of write_materials
RECURSIVE write_material_structs(_, _, _, _)
write_material_structs(F, materials, material_offsets, k) ==
    IF k > Len(materials) THEN F
    ELSE CHOOSE out \in
           {write_material_structs(G, materials, material_offsets, k + 1) :
               G \in {write_int_NOF0(
                         emit(F, BE16(texture_count_int(materials[k].texture_count))
                                 \o BE16(65535)),
                         material_offsets[k])}} : TRUE

\* write_materials: [file, material_offsets, material_structs_offset]
\* faulty variant: the material structs are written before the bodies
write_materials_structs_first(F, materials) ==
    LET s == write_8bit_aligned(
                 write_material_structs(F, materials, [k \in 1..Len(materials) |-> 0], 1))
        b == write_material_bodies([file |-> s, material_offsets |-> <<>>], materials, 1)
    IN [file |-> b.file, material_offsets |-> b.material_offsets,
        material_structs_offset |-> F.pos]

write_materials(F, materials) ==
    LET structs(r) ==
            [file |-> write_8bit_aligned(
                          write_material_structs(r.file, materials, r.material_offsets, 1)),
             material_offsets |-> r.material_offsets,
             material_structs_offset |-> r.file.pos]
    IN structs(write_material_bodies([file |-> F, material_offsets |-> <<>>], materials, 1))

\* ---- raw buffers ----
\* The loops below write one value after the other without looking at the
\* file; each is the emission of the concatenated encodings.

\* the values of a list of lists, one after the other
flat(lists) == join(lists)

write_floats(F, fs) == emit(F, ints(fs))

\* write_vertices for the meshes of a set: three floats per vertex
write_vertices(F, meshes) ==
    write_floats(F, flat([m \in 1..Len(meshes) |-> flat(meshes[m].vertices)]))

\* struct.pack('>b', b)
signed_byte(b) == IF b < 0 THEN b + 256 ELSE b

\* write_normals for the meshes of a set: int(round(p * 64)) as signed bytes
write_normals(F, meshes) ==
    LET bytes(ps) == [i \in 1..Len(ps) |-> signed_byte(round(ps[i] * 64, One))]
    IN emit(F, bytes(flat([m \in 1..Len(meshes) |-> flat(meshes[m].normals)])))

\* write_uvs: u = round(uv[0] * 256), v = round(-(uv[1] - 1) * 256), as
\* signed shorts
uv_bytes(uvs) ==
    flat([k \in 1..Len(uvs) |-> BE16(round(uvs[k][1] * 256, One))
                                \o BE16(round((One - uvs[k][2]) * 256, One))])

write_uvs(F, meshes) ==
    emit(F, flat([m \in 1..Len(meshes) |->
                     uv_bytes(get_mesh_uvs_with_indices_old(meshes[m]).all_uvs)]))

\* write_vertex_weights: two bone bytes and int(round(w * 16384)) as a
\* signed short per record, then the alignment
write_vertex_weights(F, records) ==
    write_8bit_aligned(
        emit(F, flat([k \in 1..Len(records) |->
                         records[k].bones \o BE16(round(records[k].weight * 16384, One))])))

\* the counts a set's loops add up
RECURSIVE count_of(_, _)
count_of(meshes, field) ==
    IF meshes = <<>> THEN 0
    ELSE (CASE field = "vertices" -> Len(Head(meshes).vertices)
            [] field = "normals" -> Len(Head(meshes).normals)
            [] field = "uvs" -> Len(get_mesh_uvs_with_indices_old(Head(meshes)).all_uvs))
         + count_of(Tail(meshes), field)

\* ---- vertex sets ----
\* VertexSetInfo with the defaults of the dataclass
VertexSetInfo ==
    [info_offset |-> 0, vertices_offset |-> 0, vertices_count |-> 0,
     normals_offset |-> 0, normals_count |-> 0, uvs_offset |-> 0, uvs_count |-> 0,
     weights_offset |-> 0, weights_count |-> 0]

\* the buffers of one vertex set (nn.py 1291-1359): [file, info]; a set
\* without meshes writes nothing
write_vertex_set_buffers(F, n, meshes, records) ==
    LET weights(r) ==
            IF n # 3 THEN r
            ELSE [file |-> write_vertex_weights(r.file, records),
                  info |-> [r.info EXCEPT !.weights_offset = r.file.pos,
                                          !.weights_count = r.info.vertices_count]]
        uvs(r) ==
            IF n = 2 THEN r
            ELSE weights([file |-> write_8bit_aligned(write_uvs(r.file, meshes)),
                          info |-> [r.info EXCEPT !.uvs_offset = r.file.pos,
                                                  !.uvs_count = count_of(meshes, "uvs")]])
        normals(r) ==
            uvs([file |-> write_8bit_aligned(write_normals(r.file, meshes)),
                 info |-> [r.info EXCEPT !.normals_offset = r.file.pos,
                                         !.normals_count = count_of(meshes, "normals")]])
    IN IF meshes = <<>> THEN [file |-> F, info |-> VertexSetInfo]
       ELSE normals([file |-> write_8bit_aligned(write_vertices(F, meshes)),
                     info |-> [VertexSetInfo EXCEPT !.vertices_offset = F.pos,
                                                    !.vertices_count = count_of(meshes, "vertices")]])

\* one 8-byte slot of write_vertex_struct
write_vertex_slot(F, type, count, offset) ==
    IF offset # 0
    THEN write_int_NOF0(emit(F, BE16(type) \o BE16(count)), offset)
    ELSE emit(F, Zeros(8))

write_vertex_struct(F, info) ==
    emit(write_vertex_slot(
            emit(write_vertex_slot(
                    emit(write_vertex_slot(
                            write_vertex_slot(F, 1, info.vertices_count, info.vertices_offset),
                            3, info.normals_count, info.normals_offset),
                         Zeros(8)),
                    2, info.uvs_count, info.uvs_offset),
                 Zeros(8)),
            1, info.weights_count, info.weights_offset),
         Zeros(8))

\* nn.py 1361-1392: the structs of the present sets; [file, infos]
RECURSIVE write_vertex_structs(_, _, _, _)
write_vertex_structs(r, sets, infos, n) ==
    IF n > 3 THEN r
    ELSE IF sets[n] = <<>> THEN write_vertex_structs(r, sets, infos, n + 1)
    ELSE CHOOSE out \in
           {write_vertex_structs(x, sets, infos, n + 1) :
               x \in {[file |-> write_vertex_struct(r.file, infos[n]),
                       infos |-> [r.infos EXCEPT ![n].info_offset = r.file.pos]]}} : TRUE

\* nn.py 1394-1406: the list of the present sets
RECURSIVE write_vertex_set_list(_, _, _, _)
write_vertex_set_list(F, sets, infos, n) ==
    IF n > 3 THEN F
    ELSE IF sets[n] = <<>> THEN write_vertex_set_list(F, sets, infos, n + 1)
    ELSE CHOOSE out \in
           {write_vertex_set_list(G, sets, infos, n + 1) :
               G \in {write_int_NOF0(write_int(F, 1), infos[n].info_offset)}} : TRUE

\* ---- faces ----
\* swap_f1_f2 (vertex and normal are the same list)
swap_f1_f2(face) ==
    [vertex |-> <<face.vertex[2], face.vertex[1], face.vertex[3]>>,
     texcoord |-> IF face.texcoord # <<>>
                  THEN <<face.texcoord[2], face.texcoord[1], face.texcoord[3]>>
                  ELSE <<>>]

\* create_faces: one Face per polygon; uvs is the mesh's list of uv indices
create_faces(vertices, uvs) ==
    [k \in 1..(Len(vertices) \div 3) |->
        [vertex |-> SubSeq(vertices, 3 * k - 2, 3 * k),
         texcoord |-> IF uvs # <<>> THEN SubSeq(uvs, 3 * k - 2, 3 * k) ELSE <<>>]]

\* faulty variant of the run test: the uv indices are not compared
continues_vertexOnly(current_face, last_face, doesUVexist) ==
    /\ current_face.vertex[1] = last_face.vertex[2]
    /\ current_face.vertex[2] = last_face.vertex[3]

\* the run test of strip_faces
continues(current_face, last_face, doesUVexist) ==
    /\ current_face.vertex[1] = last_face.vertex[2]
    /\ current_face.vertex[2] = last_face.vertex[3]
    /\ doesUVexist => /\ current_face.texcoord[1] = last_face.texcoord[2]
                      /\ current_face.texcoord[2] = last_face.texcoord[3]

\* the loop of strip_faces from faces[x] on
RECURSIVE strip_loop(_, _, _, _, _, _)
strip_loop(faces, x, last_face, xor_bool, face_sets, current_face_set) ==
    LET doesUVexist == faces[1].texcoord # <<>>
        restart(f) == strip_loop(faces, x + 1, f, 0, Append(face_sets, current_face_set), <<f>>)
        step(f) ==
            IF continues(f, last_face, doesUVexist)
            THEN strip_loop(faces, x + 1, f, 1 - xor_bool, face_sets,
                            Append(current_face_set, f))
            ELSE restart(IF xor_bool = 0 THEN swap_f1_f2(f) ELSE f)
    IN IF x > Len(faces)
       THEN (IF current_face_set # <<>> THEN Append(face_sets, current_face_set) ELSE face_sets)
       ELSE step(IF xor_bool = 1 THEN swap_f1_f2(faces[x]) ELSE faces[x])

strip_faces(faces) ==
    LET start(f) == strip_loop(faces, 2, f, 0, <<>>, <<f>>)
    IN start(swap_f1_f2(faces[1]))

\* the bytes of one corner of a face: vertex, normal and, if present,
\* texcoord, each a write_short
corner(face, c, texcoord_increment) ==
    BE16(face.vertex[c]) \o BE16(face.vertex[c])
    \o (IF face.texcoord # <<>> THEN BE16(face.texcoord[c] + texcoord_increment) ELSE <<>>)

write_corner(F, face, c, texcoord_increment) == emit(F, corner(face, c, texcoord_increment))

write_face(F, face, inc) ==
    emit(F, corner(face, 1, inc) \o corner(face, 2, inc) \o corner(face, 3, inc))

write_face_partial(F, face, inc) == write_corner(F, face, 3, inc)

\* "for x in range(len(set)-1): write_face_partial(file, set[x+1])"
write_partials(F, set, inc) ==
    emit(F, flat([x \in 1..(Len(set) - 1) |-> corner(set[x + 1], 3, inc)]))

\* one face set: 0x99, the number of corners, the first face, the others'
\* last corners
write_face_set(F, set, inc) ==
    write_partials(write_face(emit(F, <<153>> \o BE16(Len(set) + 2)), set[1], inc), set, inc)

\* "for set in face_sets": the sets follow each other in the file
write_face_sets(F, face_sets, inc) ==
    emit(F, flat([k \in 1..Len(face_sets) |->
                    write_face_set([data |-> <<>>, pos |-> 0], face_sets[k], inc).data]))

\* face_data_start
face_data_start(flags) ==
    <<8, 80, 0, 0, 30, 0, 8, 96, 0, 0, 0, IF flags = 589834 THEN 0 ELSE 3,
      16, 0, 0, 16, 8, 0, 0, 0>>

\* the polygons' vertex indices plus the vertex increment
RECURSIVE face_indices_of(_, _, _)
face_indices_of(polygons, k, vertex_increment) ==
    IF k > Len(polygons) THEN <<>>
    ELSE [c \in 1..3 |-> polygons[k][c] + vertex_increment]
         \o face_indices_of(polygons, k + 1, vertex_increment)

\* the blob of one mesh: F is the file after the leading write_32bit_aligned
write_mesh_blob(F, flags, me, uvs, withUv, info) ==
    LET sized(G) == [file |-> G, face |-> [flags |-> flags, offset |-> F.pos,
                                           size |-> G.pos - F.pos]]
    IN sized(write_32bit_aligned(
                write_face_sets(
                    emit(F, face_data_start(flags) \o <<IF withUv THEN 20 ELSE 4>>),
                    strip_faces(create_faces(
                        face_indices_of(me.polygons, 1, info.vertex_increment), uvs)),
                    info.texcoord_increment)))

\* write_mesh_faces: the loop over the meshes of a set; r is
\* [file, face_infos], info the IndexInfo.  Each pass binds the blob b it
\* wrote before the next pass starts.
RECURSIVE write_mesh_faces(_, _, _, _, _, _)
write_mesh_faces(r, flags, meshes, withUv, i, info) ==
    LET uvs == IF withUv THEN get_mesh_uvs_with_indices_old(meshes[i]).indices ELSE <<>>
        next(b) ==
            write_mesh_faces(
                [file |-> b.file, face_infos |-> Append(r.face_infos, b.face)],
                flags, meshes, withUv, i + 1,
                [vertex_increment |-> info.vertex_increment + Len(meshes[i].vertices),
                 texcoord_increment |->
                    IF withUv THEN info.texcoord_increment + MaxOfSeq(uvs) + 1
                    ELSE info.texcoord_increment])
    IN IF i > Len(meshes) THEN r
       ELSE CHOOSE out \in
              {next(b) : b \in {write_mesh_blob(write_32bit_aligned(r.file), flags,
                                                meshes[i], uvs, withUv, info)}} : TRUE

\* the flags write_new_gno_file_2 passes for the three sets
face_flags == <<13172778, 589834, 277151754>>

\* nn.py 1408-1420: [file, face_infos] over the present sets
RECURSIVE write_all_faces(_, _, _)
write_all_faces(r, sets, n) ==
    IF n > 3 THEN r
    ELSE CHOOSE out \in
           {write_all_faces(x, sets, n + 1) :
               x \in {write_mesh_faces(r, face_flags[n], sets[n], n # 2, 1,
                                       [vertex_increment |-> 0, texcoord_increment |-> 0])}} : TRUE

\* ---- face info ----
\* one face info struct (nn.py 1425-1429)
write_face_info_plain(F, face) ==
    \* faulty variant: the blob offset is written without a relocation
    write_int(write_int(write_int(write_int(F, face.flags), face.offset), face.size), 0)

write_face_info(F, face) ==
    write_int(write_int(write_int_NOF0(write_int(F, face.flags), face.offset), face.size), 0)

\* nn.py 1422-1429: [file, face_info_struct_offsets]
RECURSIVE write_face_infos(_, _, _)
write_face_infos(r, faces, k) ==
    IF k > Len(faces) THEN r
    ELSE CHOOSE out \in
           {write_face_infos(x, faces, k + 1) :
               x \in {[file |-> write_face_info(r.file, faces[k]),
                       face_info_struct_offsets |->
                           Append(r.face_info_struct_offsets, r.file.pos)]}} : TRUE

\* nn.py 1431-1434
RECURSIVE write_face_info_list(_, _, _)
write_face_info_list(F, offsets, k) ==
    IF k > Len(offsets) THEN F
    ELSE CHOOSE out \in
           {write_face_info_list(G, offsets, k + 1) :
               G \in {write_int_NOF0(write_int(F, 4), offsets[k])}} : TRUE

\* ---- mesh sets ----
\* gno.vertex_set_N_flags
vertex_set_flags == <<257, 258, 513>>

\* faulty variant: a mesh without material gets the first material
get_mesh_material_default(ob) ==
    [raised |-> FALSE,
     material |-> IF ob.materials = <<>> \/ ob.materials[1] = None THEN 1
                  ELSE ob.materials[1]]

\* get_mesh_material (nn.py 898-908): raises for an empty list of slots and
\* for an empty first slot
get_mesh_material(ob) ==
    IF ob.materials = <<>> THEN [raised |-> TRUE]
    ELSE IF ob.materials[1] = None THEN [raised |-> TRUE]
    ELSE [raised |-> FALSE, material |-> ob.materials[1]]

\* get_material_index (nn.py 910-922): the index, counted from 0, of the
\* first material of all_mats with the name of the material; raises when
\* there is none
get_material_index(all_mats, material) ==
    IF material > Len(all_mats) THEN [raised |-> TRUE]
    ELSE [raised |-> FALSE, index |-> material - 1]

\* get_mesh_data (nn.py 1146-1157), as far as it can raise: the index of the
\* first material of the mesh in the global materials
get_mesh_data(ob) ==
    LET firstmat == get_mesh_material(ob)
    IN IF firstmat.raised THEN [raised |-> TRUE]
       ELSE get_material_index(loc.materials, firstmat.material)

\* the 36 bytes of one mesh (the writes that follow get_mesh_data)
write_mesh_data(F, me, n, vertex_index, faceindex) ==
    write_int(
        write_int(
            write_int(
                (IF n = 3 THEN write_signed_int(write_int(F, 70), 0 - 1)
                 ELSE write_int(write_int(F, 70), me.bone_group)),
                get_mesh_data(me).index),
            vertex_index),
        faceindex)

\* the loop over the meshes of one set: r is [file, raised]; get_mesh_data
\* is called before anything of the mesh is written, and an exception ends
\* the loop
RECURSIVE write_mesh_set(_, _, _, _, _, _)
write_mesh_set(r, meshes, n, vertex_index, faceindex, k) ==
    IF k > Len(meshes) \/ r.raised THEN r
    ELSE IF get_mesh_data(meshes[k]).raised THEN [r EXCEPT !.raised = TRUE]
    ELSE CHOOSE out \in
           {write_mesh_set([file |-> G, raised |-> FALSE], meshes, n, vertex_index,
                           faceindex, k + 1) :
               G \in {write_mesh_data(
                         write_float(write_floats(r.file, meshes[k].bounds_position),
                                     meshes[k].bounds_scale),
                         meshes[k], n, vertex_index, faceindex + k - 1)}} : TRUE

\* nn.py 1436-1483: r is [file, meshset_info, faceindex, vertex_index, raised]
RECURSIVE write_mesh_sets(_, _, _)
write_mesh_sets(r, sets, n) ==
    IF n > 3 \/ r.raised THEN r
    ELSE IF sets[n] = <<>> THEN write_mesh_sets(r, sets, n + 1)
    ELSE CHOOSE out \in
           {write_mesh_sets(x, sets, n + 1) :
               x \in {LET w == write_mesh_set([file |-> r.file, raised |-> FALSE], sets[n],
                                              n, r.vertex_index, r.faceindex, 1)
                      IN [file |-> w.file,
                          raised |-> w.raised,
                          meshset_info |-> Append(r.meshset_info,
                                                  [start_offset |-> r.file.pos,
                                                   flags |-> vertex_set_flags[n],
                                                   count |-> Len(sets[n])]),
                          faceindex |-> r.faceindex + Len(sets[n]),
                          vertex_index |-> r.vertex_index + 1]}} : TRUE

\* nn.py 1486-1491
RECURSIVE write_mesh_set_infos(_, _, _)
write_mesh_set_infos(F, meshset_info, k) ==
    IF k > Len(meshset_info) THEN F
    ELSE CHOOSE out \in
           {write_mesh_set_infos(G, meshset_info, k + 1) :
               G \in {emit(write_int_NOF0(
                              write_int(write_int(F, meshset_info[k].flags),
                                        meshset_info[k].count),
                              meshset_info[k].start_offset),
                           Zeros(8))}} : TRUE

\* ---- object summary (nn.py 1493-1516); L holds the recorded offsets ----
write_object(F, L) ==
    write_int(
     write_int_NOF0(
      write_int(
       write_int(
        write_int_NOF0(
         write_int(
          write_int(
           write_int_NOF0(
            write_int(
             write_int_NOF0(
              write_int(
               write_int_NOF0(
                write_int(
                 write_float(
                  write_floats(F, <<f32_bounds_x, f32_bounds_y, 0>>),
                  f32_bounds_scale),
                 Len(L.materials)),
                L.material_structs_offset),
               L.vertex_index),
              L.offset_to_vertex_sets_offset),
             Len(L.face_info_struct_offsets)),
            L.face_info_offset),
           Len(L.bones) \div 128),
          12),
         L.bone_offset),
        36),
       Len(L.meshset_info)),
      L.mesh_set_info_offset),
     4)

\* ---- trailing chunks ----
\* write_NOF0_header; F is the file after the leading write_32bit_aligned
NOF0_header(start, table) ==
    NOF0 \o LE32(align32(start + 16 + Len(table) * 4) - (start + 16) + 8)
    \o BE32(Len(table)) \o Zeros(4)

write_offsets_reversed(F, table, k) ==
    \* faulty variant: the entries are stored last to first
    emit(F, ints(Reverse(table)))

\* "for offset in gno.NOF0_offsets: file.write_int(offset)": the integers
\* follow each other in the file
write_offsets(F, table, k) == emit(F, ints(SubSeq(table, k, Len(table))))

write_NOF0_header(F) ==
    LET body(G) == write_offsets(emit(G, NOF0_header(G.pos, G.NOF0_offsets)),
                                 G.NOF0_offsets, 1)
    IN body(write_32bit_aligned(F))

\* the name write_NFN0_header stores: the .blend basename without its last
\* five characters, plus "gno"
gno_filename(basename) ==
    LET named(filename) == SubSeq(filename, 1, Len(filename) - 5) \o gno_ext
    IN named(IF basename = <<>> THEN untitled \o blend_ext ELSE basename)

write_NFN0_header(F, basename) ==
    emit(write_32bit_aligned(F),
         NFN0 \o LE32(align32(Len(gno_filename(basename)) + 17) - 8) \o Zeros(8)
         \o gno_filename(basename) \o <<0>>)

write_NEND_header(F) ==
    write_32bit_aligned(emit(write_32bit_aligned(F), NEND \o LE32(8)))

\* faulty variant: the chunk header without its payload
generate_NGIF_header_bare(offset_to_NOF0, NGOB_header_index) == NGIF \o LE32(24)

\* faulty variant: both offset fields hold the offset that write_model has
\* before it adds the length of this header
generate_NGIF_header_unshifted(offset_to_NOF0, NGOB_header_index) ==
    NGIF \o LE32(24)
    \o ints(<<NGOB_header_index, 32, offset_to_NOF0 - 32, offset_to_NOF0 - 32, 448, 1>>)

\* generate_NGIF_header (nn_general.py 3-7)
generate_NGIF_header(offset_to_NOF0, NGOB_header_index) ==
    NGIF \o LE32(24)
    \o ints(<<NGOB_header_index, 32, offset_to_NOF0 - 32, offset_to_NOF0, 448, 1>>)

\* ========================================================================
\* Scenes explored
\* ========================================================================
\* "a.png" and a node without image
imgA == <<<<97>>, <<112, 110, 103>>>>

\* the image texture nodes of a material
MaterialChoices ==
    { <<>>,
      <<[image |-> imgA, linked |-> FALSE], [image |-> NoImage, linked |-> TRUE]>> }

RECURSIVE SeqsUpTo(_, _)
SeqsUpTo(S, n) ==
    IF n = 0 THEN {<<>>}
    ELSE SeqsUpTo(S, n - 1)
         \cup {Append(q, x) : q \in {p \in SeqsUpTo(S, n - 1) : Len(p) = n - 1}, x \in S}

MaterialLists == SeqsUpTo(MaterialChoices, MaxMaterials) \ {<<>>}

\* the bone blob: any bytes, here of three lengths (empty, odd, one bone)
BoneBlobs == {[i \in 1..n |-> 1] : n \in {0, 5, 128}}

\* basename of the .blend file: unsaved, or "ab.blend"
Filenames == {<<>>, <<97, 98>> \o blend_ext}

\* vertex groups of the vertices: all in group 0 with full weight, or
\* the first vertex shared between groups 0 and 1
groupsOf(weighted, nverts) ==
    [v \in 1..nverts |->
        IF ~weighted THEN <<[group |-> 0, weight |-> One]>>
        ELSE IF v = 1 THEN <<[group |-> 0, weight |-> One \div 2],
                             [group |-> 1, weight |-> One \div 2]>>
        ELSE <<[group |-> 1, weight |-> One]>>]

\* a triangulated mesh object with the given polygons and per-loop uvs
\* materials: the slots of ob.data.materials, each the number of a material
\* of bpy.data.materials (counted from 1) or None
MeshObject(uv, weighted, nverts, polygons, loop_uvs) ==
    [uv |-> uv,
     vertices |-> [v \in 1..nverts |-> <<IF v = 2 THEN f32_1_0 ELSE 0,
                                         IF v > 2 THEN f32_1_0 ELSE 0, 0>>],
     normals |-> [v \in 1..nverts |-> <<0, 0, One>>],
     polygons |-> polygons,
     loop_uvs |-> IF uv THEN loop_uvs ELSE <<>>,
     vertex_groups |-> IF weighted THEN 2 ELSE 1,
     groups |-> groupsOf(weighted, nverts),
     bounds_position |-> <<0, 0, 0>>,
     bounds_scale |-> f32_1_0,
     bone_group |-> 0,
     materials |-> <<1>>]

\* a mesh without material slots, and one whose first slot is empty
MeshesWithoutMaterial ==
    {[MeshObject(FALSE, FALSE, 3, <<<<0, 1, 2>>>>, <<>>) EXCEPT !.materials = <<>>],
     [MeshObject(TRUE, FALSE, 3, <<<<0, 1, 2>>>>, <<<<0, 0>>, <<One, 0>>, <<0, One>>>>)
         EXCEPT !.materials = <<None>>]}

\* a single triangle, and a fan of three triangles around vertex 0
MeshObjects ==
    MeshesWithoutMaterial
    \cup
    {MeshObject(uv, weighted, 3, <<<<0, 1, 2>>>>,
                <<<<0, 0>>, <<One, 0>>, <<0, One>>>>) : uv, weighted \in BOOLEAN}
    \cup
    {MeshObject(uv, weighted, 4, <<<<0, 1, 2>>, <<0, 2, 3>>, <<0, 3, 1>>>>,
                <<<<0, 0>>, <<One, 0>>, <<One, One>>,
                  <<0, 0>>, <<One, One>>, <<0, One>>,
                  <<0, 0>>, <<0, One>>, <<One, 0>>>>) : uv, weighted \in BOOLEAN}

Scenes ==
    [include_texture_list : BOOLEAN,
     materials : MaterialLists,
     bones : BoneBlobs,
     filename : Filenames,
     meshes : SeqsUpTo(MeshObjects, MaxMeshes)]

\* ========================================================================
\* write_model   (__init__.py 40-65)
\* ========================================================================
NoScene == [include_texture_list |-> FALSE, materials |-> <<>>, bones |-> <<>>,
            filename |-> <<>>, meshes |-> <<>>]

\* the local variables of write_new_gno_file_2 and write_model
NoLocals ==
    [materials |-> <<>>, texture_names |-> <<>>, sets |-> <<<<>>, <<>>, <<>>>>,
     weights |-> <<>>, bones |-> <<>>, chunks |-> <<>>,
     NGOB_header_offset |-> 0, bone_offset |-> 0,
     material_offsets |-> <<>>, material_structs_offset |-> 0,
     infos |-> <<VertexSetInfo, VertexSetInfo, VertexSetInfo>>,
     offset_to_vertex_sets_offset |-> 0,
     facedata_list |-> <<>>, face_info_struct_offsets |-> <<>>, face_info_offset |-> 0,
     meshset_info |-> <<>>, vertex_index |-> 0, mesh_set_info_offset |-> 0,
     main_object_data_offset |-> 0, offset_to_NOF0 |-> 0, NGOB_size |-> 0,
     content |-> <<>>]

WInit ==
    /\ wpc = "idle"
    /\ scene = NoScene
    /\ loc = NoLocals

\* the state after a step of the writer left the file as F
Written(F, next, L) ==
    /\ fileobject' = [data |-> F.data, pos |-> F.pos]
    /\ NOF0_offsets' = F.NOF0_offsets
    /\ wpc' = next
    /\ loc' = L
    /\ UNCHANGED <<svars, last_op, scene>>

\* write_model opens the file and calls the writer, which reads the scene:
\* weights, categorisation and materials (nn.py 1219-1261)
WriteModelEnter ==
    /\ wpc = "idle"
    /\ fileobject.data = <<>>
    /\ \E sc \in Scenes :
         \E mats \in {get_all_materials(sc.materials)} :
            /\ scene' = sc
            /\ loc' = [NoLocals EXCEPT
                          !.materials = mats.all_materials,
                          !.texture_names = mats.texture_names,
                          !.bones = sc.bones,
                          !.weights = get_weight_painted_meshes(sc.meshes, 1),
                          !.sets = [n \in 1..3 |-> vertex_set_meshes(sc.meshes, n, 1)]]
            /\ wpc' = IF \E i \in 1..Len(loc'.weights) : loc'.weights[i].raised
                      THEN "raised" ELSE "NGTL"
    /\ UNCHANGED <<svars, fvars>>

\* nn.py 1263-1276
WriteTextureList ==
    /\ wpc = "NGTL"
    /\ IF scene.include_texture_list
       THEN \E F \in {write_NGTL(emit(TheFile, NGTL_header(loc.texture_names)),
                                 loc.texture_names,
                                 string_table_offsets(loc.texture_names))} :
               Written(F, "NGOB", [loc EXCEPT !.chunks = Append(@, fileobject.pos)])
       ELSE Written(TheFile, "NGOB", loc)

\* nn.py 1278-1286
WriteObjectHeader ==
    /\ wpc = "NGOB"
    /\ Written(emit(emit(TheFile, generate_dummy_NGOB_header), loc.bones), "materials",
               [loc EXCEPT !.NGOB_header_offset = fileobject.pos,
                           !.chunks = Append(@, fileobject.pos),
                           !.bone_offset = fileobject.pos + 16])

\* nn.py 1289
WriteMaterials ==
    /\ wpc = "materials"
    /\ \E r \in {write_materials(TheFile, loc.materials)} :
          Written(r.file, "vertex_set_1",
                  [loc EXCEPT !.material_offsets = r.material_offsets,
                              !.material_structs_offset = r.material_structs_offset])

\* nn.py 1291-1359, one vertex set at a time
WriteVertexSet1 ==
    /\ wpc = "vertex_set_1"
    /\ \E r \in {write_vertex_set_buffers(TheFile, 1, loc.sets[1], loc.weights)} :
          Written(r.file, "vertex_set_2", [loc EXCEPT !.infos[1] = r.info])

WriteVertexSet2 ==
    /\ wpc = "vertex_set_2"
    /\ \E r \in {write_vertex_set_buffers(TheFile, 2, loc.sets[2], loc.weights)} :
          Written(r.file, "vertex_set_3", [loc EXCEPT !.infos[2] = r.info])

WriteVertexSet3 ==
    /\ wpc = "vertex_set_3"
    /\ \E r \in {write_vertex_set_buffers(TheFile, 3, loc.sets[3], loc.weights)} :
          Written(r.file, "vertex_structs", [loc EXCEPT !.infos[3] = r.info])

\* nn.py 1361-1406
WriteVertexStructs ==
    /\ wpc = "vertex_structs"
    /\ \E r \in {write_vertex_structs([file |-> TheFile, infos |-> loc.infos],
                                      loc.sets, loc.infos, 1)} :
          Written(write_vertex_set_list(r.file, loc.sets, r.infos, 1), "faces",
                  [loc EXCEPT !.infos = r.infos,
                              !.offset_to_vertex_sets_offset = r.file.pos])

\* nn.py 1408-1420
WriteFaces ==
    /\ wpc = "faces"
    /\ \E r \in {write_all_faces([file |-> TheFile, face_infos |-> <<>>], loc.sets, 1)} :
          Written(r.file, "face_info", [loc EXCEPT !.facedata_list = r.face_infos])

\* nn.py 1422-1434
WriteFaceInfo ==
    /\ wpc = "face_info"
    /\ \E r \in {write_face_infos([file |-> TheFile, face_info_struct_offsets |-> <<>>],
                                  loc.facedata_list, 1)} :
          Written(write_face_info_list(r.file, r.face_info_struct_offsets, 1), "mesh_sets",
                  [loc EXCEPT !.face_info_struct_offsets = r.face_info_struct_offsets,
                              !.face_info_offset = r.file.pos])

\* nn.py 1436-1491
\* an exception leaves write_new_gno_file_2 and, through the with-block that
\* closes the file, write_model (__init__.py 41-43)
WriteMeshSets ==
    /\ wpc = "mesh_sets"
    /\ \E r \in {write_mesh_sets([file |-> TheFile, meshset_info |-> <<>>,
                                  faceindex |-> 0, vertex_index |-> 0,
                                  raised |-> FALSE], loc.sets, 1)} :
          IF r.raised
          THEN Written(r.file, "raised", [loc EXCEPT !.meshset_info = r.meshset_info])
          ELSE Written(write_mesh_set_infos(r.file, r.meshset_info, 1), "object",
                       [loc EXCEPT !.meshset_info = r.meshset_info,
                                   !.vertex_index = r.vertex_index,
                                   !.mesh_set_info_offset = r.file.pos])

\* nn.py 1493-1519
WriteObject ==
    /\ wpc = "object"
    /\ \E F \in {write_32bit_aligned(write_object(TheFile, loc))} :
          Written(F, "NOF0", [loc EXCEPT !.main_object_data_offset = fileobject.pos,
                                         !.offset_to_NOF0 = F.pos])

\* nn.py 1520
WriteNOF0 ==
    /\ wpc = "NOF0"
    /\ \E G \in {write_32bit_aligned(TheFile)} :
          Written(write_NOF0_header(TheFile), "NFN0",
                  [loc EXCEPT !.chunks = Append(@, G.pos)])

\* nn.py 1521
WriteNFN0 ==
    /\ wpc = "NFN0"
    /\ \E G \in {write_32bit_aligned(TheFile)} :
          Written(write_NFN0_header(TheFile, scene.filename), "NEND",
                  [loc EXCEPT !.chunks = Append(@, G.pos)])

\* nn.py 1522-1524: the last chunk and the return to write_model
WriteNEND ==
    /\ wpc = "NEND"
    /\ \E G \in {write_32bit_aligned(TheFile)} :
          Written(write_NEND_header(TheFile), "patch",
                  [loc EXCEPT !.chunks = Append(@, G.pos),
                              !.NGOB_size = loc.offset_to_NOF0 - loc.NGOB_header_offset])

\* faulty variant: the two integers are written where the file stands
patch_header_unseeked(F, NGOB_header_offset, NGOB_size, main_object_data_offset) ==
    write(F, LE32(NGOB_size - 8) \o BE32(main_object_data_offset), NoOffset)

\* __init__.py 48-52: data = pack('<I', NGOB_size - 8) + pack('>I',
\* main_object_data_offset); file.seek(NGOB_header_offset + 4); file.write(data)
patch_header(F, NGOB_header_offset, NGOB_size, main_object_data_offset) ==
    write(seek(F, NGOB_header_offset + 4),
          LE32(NGOB_size - 8) \o BE32(main_object_data_offset),
          NoOffset)

\* __init__.py 48-54: the size and the object offset go into the NGOB header
PatchPass ==
    /\ wpc = "patch"
    /\ \E F \in {patch_header(TheFile, loc.NGOB_header_offset, loc.NGOB_size,
                              loc.main_object_data_offset)} :
          Written(F, "prepend", [loc EXCEPT !.content = F.data])

\* __init__.py 56-63: the file is rewritten as NGIF header plus content
PrependPass ==
    /\ wpc = "prepend"
    /\ Written(write([data |-> <<>>, pos |-> 0, NOF0_offsets |-> NOF0_offsets],
                     generate_NGIF_header(loc.offset_to_NOF0 + 32,
                                          IF scene.include_texture_list THEN 2 ELSE 1)
                     \o loc.content,
                     NoOffset),
               "done", loc)

WNext ==
    \/ WriteModelEnter \/ WriteTextureList \/ WriteObjectHeader \/ WriteMaterials
    \/ WriteVertexSet1 \/ WriteVertexSet2 \/ WriteVertexSet3 \/ WriteVertexStructs
    \/ WriteFaces \/ WriteFaceInfo \/ WriteMeshSets \/ WriteObject
    \/ WriteNOF0 \/ WriteNFN0 \/ WriteNEND \/ PatchPass \/ PrependPass

\* ------------------------------------------------------------------------
\* A Strippifier object used for one mesh after the other
\* ------------------------------------------------------------------------
\* the caller passes on to the next mesh (nn.py 611-674 calls Strippify once
\* per mesh): the attributes of the object and the module global stay as the
\* call on a single-triangle mesh left them
NextMesh ==
    /\ pc \in {"returned", "raised"}
    /\ Len(face_indices) = 1
    /\ pc' = "caller"
    /\ face_indices' = <<>>
    /\ opts' = NoOptions
    /\ error' = ""
    /\ mesh' = EmptyMesh
    /\ used' = <<>>
    /\ written' = 0
    /\ strips' = <<>>
    /\ normal_strips' = <<>>
    /\ uv_strips' = <<>>
    /\ firstTri' = None
    /\ reversals' = 0
    /\ result' = <<>>
    /\ UNCHANGED <<has_uv_list, uv_strip_attr, raiseTopoErrorG>>
    /\ UNCHANGED <<fvars, wvars>>

\* the loop "while self.written != triCount" of a whole call
RECURSIVE StrippifyLoop(_, _, _, _, _, _)
StrippifyLoop(m, S, ft, o, hasUv, uvAttr) ==
    IF S.err # "" \/ S.written = Len(m.verts) THEN S
    ELSE CHOOSE out \in
           {StrippifyLoop(m, r.S, r.firstTri, o, hasUv, r.uvAttr) :
               r \in {stripIteration(m, S, ft, o, hasUv, uvAttr)}} : TRUE

\* Strippify (340-604) as one call on an object whose has_uv_list is
\* self_has_uv_list and which has the attribute uv_strip when self_uv_strip:
\* the error raised ("" when none) and the strips
Strippify(indexList, o, self_has_uv_list, self_uv_strip) ==
    LET m == Mesh_init(indexList, raiseTopoError(o))
        hasUv == IF o.uvMode # "none" THEN TRUE ELSE self_has_uv_list
        g == getFirstTri(m, FreshFields(Len(indexList)), hasUv, o.uvMode)
        S == StrippifyLoop(m, g[1], g[2], o, hasUv, self_uv_strip)
    IN IF m.raised
       THEN [error |-> "TopologyError", strips |-> <<>>, normal_strips |-> <<>>,
             uv_strips |-> <<>>]
       ELSE IF S.err # ""
       THEN [error |-> S.err, strips |-> <<>>, normal_strips |-> <<>>, uv_strips |-> <<>>]
       ELSE [error |-> "", strips |-> S.strips, normal_strips |-> S.normal_strips,
             uv_strips |-> S.uv_strips]

\* ------------------------------------------------------------------------
\* getFirstTri called on a mesh of which some triangles are used
\* ------------------------------------------------------------------------
\* the strips written so far have used some of the triangles of the mesh
SomeUsed ==
    /\ pc = "caller"
    /\ Len(face_indices) >= 1
    /\ mesh' = Mesh_init(face_indices, FALSE)
    /\ \E u \in [1..Len(face_indices) -> BOOLEAN] :
          /\ used' = u
          /\ written' = Cardinality({t \in 1..Len(face_indices) : u[t]})
    /\ pc' = "picking"
    /\ UNCHANGED <<face_indices, opts, error, strips, normal_strips, uv_strips, firstTri,
                   has_uv_list, uv_strip_attr, raiseTopoErrorG, reversals, result>>
    /\ UNCHANGED <<fvars, wvars>>

\* "firstTri = self.getFirstTri()"
CallGetFirstTri ==
    /\ pc = "picking"
    /\ \E g \in {getFirstTri(mesh, Fields, has_uv_list, opts.uvMode)} :
          /\ used' = g[1].used
          /\ written' = g[1].written
          /\ strips' = g[1].strips
          /\ normal_strips' = g[1].normal_strips
          /\ uv_strips' = g[1].uv_strips
          /\ firstTri' = g[2]
          /\ error' = g[1].err
    /\ pc' = "picked"
    /\ UNCHANGED <<face_indices, opts, mesh, has_uv_list, uv_strip_attr, raiseTopoErrorG,
                   reversals, result>>
    /\ UNCHANGED <<fvars, wvars>>

\* ========================================================================
\* write_normals and write_uvs called on a list   (nn.py 350-367)
\* ========================================================================
\* components of a normal, in units of 1 / One: -1, -3/128, 0, 25/2048,
\* 1/128, 3/128 and 1
NormalComponents == {0 - One, 0 - 768, 0, 400, 256, 768, One}

\* components of a uv: -1/512, 0, 1/512, 3/512, 25/16384, 1/2 and 1
UvComponents == {0 - 64, 0, 64, 192, 50, One \div 2, One}

\* a triangle whose first vertex has the normal n
meshWithNormal(n) ==
    [MeshObject(FALSE, FALSE, 3, <<<<0, 1, 2>>>>, <<>>)
        EXCEPT !.normals = <<n, <<0, 0, One>>, <<0, 0, One>>>>]

\* a triangle whose first loop has the uv given
meshWithUv(uv) ==
    MeshObject(TRUE, FALSE, 3, <<<<0, 1, 2>>>>, <<uv, <<One \div 2, One \div 2>>, uv>>)

\* the state after a writer of a list left the file as F
Quantized(F, op) ==
    /\ fileobject' = [data |-> F.data, pos |-> F.pos]
    /\ NOF0_offsets' = F.NOF0_offsets
    /\ last_op' = op
    /\ UNCHANGED <<svars, wvars>>

CallWriteNormals ==
    /\ wpc = "idle"
    /\ last_op.op = "open"
    /\ \E x, y, z \in NormalComponents :
          Quantized(write_normals(TheFile, <<meshWithNormal(<<x, y, z>>)>>),
                    [op |-> "write_normals", normal |-> <<x, y, z>>])

CallWriteUvs ==
    /\ wpc = "idle"
    /\ last_op.op = "open"
    /\ \E u, v \in UvComponents :
          Quantized(write_uvs(TheFile, <<meshWithUv(<<u, v>>)>>),
                    [op |-> "write_uvs", uv |-> <<u, v>>])

QNext == CallWriteNormals \/ CallWriteUvs

\* ========================================================================
\* Specifications
\* ========================================================================
\* ------------------------------------------------------------------------
\* Mesh(triList) called on any index list
\* ------------------------------------------------------------------------
\* the triples of vertex indices that may follow tl, up to renaming of the
\* vertices; a triple may name a vertex twice or three times
Triples(tl) ==
    LET n == Cardinality(usedVerts(tl))
    IN {t \in Verts \X Verts \X Verts :
          /\ t[1] <= n
          /\ t[2] <= Max(n, t[1] + 1)
          /\ t[3] <= Max(Max(n, t[1] + 1), t[2] + 1)}

\* the caller extends the index list by three indices
AppendTriple ==
    /\ pc = "caller"
    /\ Len(face_indices) < MaxTris
    /\ \E t \in Triples(face_indices) :
          /\ usedVerts(Append(face_indices, t)) \subseteq 0..(NumVerts - 1)
          /\ face_indices' = Append(face_indices, t)
    /\ UNCHANGED <<opts, pc, error, mesh, used, written, strips, normal_strips,
                   uv_strips, firstTri, has_uv_list, uv_strip_attr,
                   raiseTopoErrorG, reversals, result>>
    /\ UNCHANGED <<fvars, wvars>>

\* "Mesh(indexList)" (strippifier.py 247-266) with the module global
\* raiseTopoErrorG set or cleared
CallMesh ==
    /\ pc = "caller"
    /\ Len(face_indices) >= 1
    /\ \E strict \in BOOLEAN :
        \E m \in {Mesh_init(face_indices, strict)} :
           /\ raiseTopoErrorG' = strict
           /\ mesh' = m
           /\ pc' = IF m.raised THEN "raised" ELSE "built"
           /\ error' = IF m.raised THEN "TopologyError" ELSE ""
    /\ UNCHANGED <<face_indices, opts, used, written, strips, normal_strips,
                   uv_strips, firstTri, has_uv_list, uv_strip_attr, reversals, result>>
    /\ UNCHANGED <<fvars, wvars>>

MNext == AppendTriple \/ CallMesh

\* ------------------------------------------------------------------------
\* get_weight_painted_meshes called on one mesh
\* ------------------------------------------------------------------------
\* the groups of a vertex: none, one group with full or half weight, two
\* groups, three and four groups
GroupLists ==
    {<<>>,
     <<[group |-> 0, weight |-> One]>>,
     <<[group |-> 1, weight |-> One \div 2]>>,
     <<[group |-> 0, weight |-> One \div 2], [group |-> 1, weight |-> One \div 2]>>,
     <<[group |-> 2, weight |-> One \div 4], [group |-> 0, weight |-> One \div 4],
       [group |-> 1, weight |-> One \div 2]>>,
     <<[group |-> 1, weight |-> One \div 8], [group |-> 2, weight |-> One \div 8],
       [group |-> 0, weight |-> One \div 4], [group |-> 3, weight |-> One \div 2]>>}

\* a triangle with four vertex groups whose vertices are in the groups given
meshWithGroups(gs) ==
    [MeshObject(TRUE, TRUE, 3, <<<<0, 1, 2>>>>, <<<<0, 0>>, <<One, 0>>, <<0, One>>>>)
        EXCEPT !.vertex_groups = 4, !.groups = gs]

\* "weighted_mesh_names, weighted_vertices_weights, weighted_vertices_bones
\* = get_weight_painted_meshes()" (nn.py 1221)
CallGetWeightPaintedMeshes ==
    /\ wpc = "idle"
    /\ \E gs \in [1..3 -> GroupLists] :
         \E records \in {get_weight_painted_meshes(<<meshWithGroups(gs)>>, 1)} :
            /\ scene' = [NoScene EXCEPT !.meshes = <<meshWithGroups(gs)>>]
            /\ loc' = [NoLocals EXCEPT !.weights = records]
            /\ wpc' = IF \E i \in 1..Len(records) : records[i].raised
                      THEN "raised" ELSE "weights"
    /\ UNCHANGED <<svars, fvars>>

GNext == CallGetWeightPaintedMeshes

\* ------------------------------------------------------------------------
\* strip_faces and the face sets written for one mesh
\* ------------------------------------------------------------------------
\* the uv indices of the corners of the polygons: none, the vertex index
\* (no seam), an index per corner (a seam at every edge), or the vertex
\* index for the first two polygons and another index for the later ones
FaceUvModes == {"none", "shared", "split", "seam"}

faceUvs(mode, tl) ==
    IF mode = "none" THEN <<>>
    ELSE [q \in 1..(3 * Len(tl)) |->
            LET i == (q - 1) \div 3 + 1
                c == ((q - 1) % 3) + 1
            IN IF mode = "shared" THEN tl[i][c]
               ELSE IF mode = "split" THEN q - 1
               ELSE IF i <= 2 THEN tl[i][c] ELSE tl[i][c] + 8]

\* write_mesh_faces 506-538 for the first mesh: the faces are created and
\* stripped, and the face sets are written
CallStripFaces ==
    /\ pc = "caller"
    /\ Len(face_indices) >= 1
    /\ \E mode \in FaceUvModes :
        \E faces \in {create_faces(flat(face_indices), faceUvs(mode, face_indices))} :
        \E face_sets \in {strip_faces(faces)} :
           /\ result' = [faces |-> faces, face_sets |-> face_sets]
           /\ fileobject' = LET F == write_face_sets([data |-> <<>>, pos |-> 0], face_sets, 0)
                             IN [data |-> F.data, pos |-> F.pos]
    /\ pc' = "stripped"
    /\ UNCHANGED <<face_indices, opts, error, mesh, used, written, strips, normal_strips,
                   uv_strips, firstTri, has_uv_list, uv_strip_attr,
                   raiseTopoErrorG, reversals>>
    /\ UNCHANGED <<NOF0_offsets, last_op, wvars>>

PNext == AppendPolygon \/ CallStripFaces

vars == <<svars, fvars, wvars>>

Init == SInit /\ FInit /\ WInit

\* Strippify called on index lists
SNext == AppendPolygon \/ StrippifyEnter \/ StripIteration \/ StrippifyReturn

Next == SNext

Spec == Init /\ [][Next]_vars

\* Strippify called on one object for one mesh after the other
RNext == SNext \/ NextMesh

SpecReuse == Init /\ [][RNext]_vars

\* getFirstTri called on the meshes, with any of the triangles used
TNext == AppendPolygon \/ SomeUsed \/ CallGetFirstTri

SpecFirstTri == Init /\ [][TNext]_vars

\* a File object driven by arbitrary calls
SpecFile == Init /\ [][FNext]_vars

\* write_model exporting a scene
SpecWriter == Init /\ [][WNext]_vars

\* write_normals and write_uvs called on a newly opened file
SpecQuantize == Init /\ [][QNext]_vars

\* Mesh: the constructor on any index list
SpecMesh == Init /\ [][MNext]_vars

\* get_weight_painted_meshes on one mesh
SpecWeights == Init /\ [][GNext]_vars

\* strip_faces on the polygons of one mesh
SpecStripFaces == Init /\ [][PNext]_vars

D == fileobject.data

\* offsets of the container are relative to the end of the NGIF header,
\* which the file has once the prepend pass is done
base == IF wpc = "done" THEN 32 ELSE 0

\* the big-endian / little-endian integer stored at container offset p
U32(p) == ReadBE32(D, base + p)

L32(p) == ReadLE32(D, base + p)

U16(p) == D[base + p + 1] * 256 + D[base + p + 2]

\* the four bytes at container offset p
magicAt(p) == SubSeq(D, base + p + 1, base + p + 4)

\* the NOF0 chunk has been written
NOF0_emitted == wpc \in {"NFN0", "NEND", "patch", "prepend", "done"}

\* the relocation table stored in the NOF0 chunk
storedTable == [k \in 1..U32(loc.offset_to_NOF0 + 8) |-> U32(loc.offset_to_NOF0 + 12 + 4 * k)]

\* C8: at every point of the export the relocation table is strictly
\* increasing and each entry is the position of a 4-byte field already
\* written; from the moment the NOF0 chunk is written, the chunk holds the
\* length of the table and then its entries in the same order, so no entry
\* is added afterwards.
C8_RelocationOrder ==
    /\ \A k \in 1..Len(NOF0_offsets) :
          /\ k > 1 => NOF0_offsets[k - 1] < NOF0_offsets[k]
          /\ base + NOF0_offsets[k] + 4 <= Len(D)
    /\ NOF0_emitted =>
          /\ magicAt(loc.offset_to_NOF0) = NOF0
          /\ U32(loc.offset_to_NOF0 + 8) = Len(NOF0_offsets)
          /\ storedTable = NOF0_offsets

\* the export of a scene with a texture list and meshes is complete
C8_Witness ==
    /\ wpc = "done"
    /\ scene.include_texture_list
    /\ Len(scene.meshes) = 2
    /\ Len(NOF0_offsets) >= 20

\* ---- the container as a reader walks it (valid once wpc = "done") ----
\* the first chunk is the texture list
hasNGTL == magicAt(0) = NGTL

\* container offset of the NGOB chunk: after the NGTL chunk, if there is one
ngobAt == IF hasNGTL THEN 8 + L32(4) ELSE 0

\* container offset of the NOF0 chunk, from the NGIF header
nof0At == ReadBE32(D, 16)

\* the entries of the NOF0 chunk
entries == {U32(nof0At + 12 + 4 * k) : k \in 1..U32(nof0At + 8)}

\* the offset fields of a list of count structs of the given stride
listFields(count, start, stride, off) == {start + stride * (k - 1) + off : k \in 1..count}

\* the offset field in the NGTL header and the one patched into the NGOB
\* header
headerOffsetFields == (IF hasNGTL THEN {8} ELSE {}) \cup {ngobAt + 8}

\* texture list: the pointer to the entries, and one name pointer per entry
textureFields ==
    IF hasNGTL
    THEN {U32(8) + 4} \cup listFields(U32(U32(8)), U32(U32(8) + 4), 20, 4)
    ELSE {}

\* container offset of the object summary
objectAt == U32(ngobAt + 8)

\* the pointers of the object summary: materials, vertex sets, face infos,
\* bones, mesh sets
objectFields == {objectAt + 20, objectAt + 28, objectAt + 36, objectAt + 48, objectAt + 60}

materialFields == listFields(U32(objectAt + 16), U32(objectAt + 20), 8, 4)

vertexSetFields == listFields(U32(objectAt + 24), U32(objectAt + 28), 8, 4)

\* the buffer pointers of the vertex struct at S: the used slots among
\* vertices, normals, uvs and weights
slotFields(S) == {S + x + 4 : x \in {y \in {0, 8, 24, 40} : U16(S + y) # 0}}

vertexStructFields == UNION {slotFields(U32(f)) : f \in vertexSetFields}

faceListFields == listFields(U32(objectAt + 32), U32(objectAt + 36), 8, 4)

faceStructFields == {U32(f) + 4 : f \in faceListFields}

meshSetFields == listFields(U32(objectAt + 56), U32(objectAt + 60), 20, 8)

\* every offset field of the chunk data
dataOffsetFields ==
    textureFields \cup objectFields \cup materialFields \cup vertexSetFields
    \cup vertexStructFields \cup faceListFields \cup faceStructFields \cup meshSetFields

\* the field at container offset e lies in the file and holds an offset
\* that lies in the file
resolves(e) == base + e + 4 <= Len(D) /\ base + U32(e) < Len(D)

expectedChunks ==
    (IF scene.include_texture_list THEN <<NGTL>> ELSE <<>>) \o <<NGOB, NOF0, NFN0, NEND>>

\* C10: every chunk starts on a multiple of 32 (the NGIF header at 0, the
\* others where the main pass put them), the final file ends on a multiple
\* of 32, every face-strip blob starts and ends on a multiple of 32, and
\* every vertex, normal, uv and weight buffer starts on a multiple of 4.
C10_Alignment ==
    /\ \A k \in 1..Len(loc.chunks) :
          /\ loc.chunks[k] % 32 = 0
          /\ magicAt(loc.chunks[k]) = expectedChunks[k]
    /\ \A k \in 1..Len(loc.facedata_list) :
          /\ loc.facedata_list[k].offset % 32 = 0
          /\ (loc.facedata_list[k].offset + loc.facedata_list[k].size) % 32 = 0
    /\ \A n \in 1..3 :
          /\ loc.infos[n].vertices_offset % 4 = 0
          /\ loc.infos[n].normals_offset % 4 = 0
          /\ loc.infos[n].uvs_offset % 4 = 0
          /\ loc.infos[n].weights_offset % 4 = 0
    /\ wpc = "done" =>
          /\ SubSeq(D, 1, 4) = NGIF
          /\ Len(loc.chunks) = Len(expectedChunks)
          /\ Len(D) % 32 = 0

\* a final file with an odd-sized bone blob, a texture list, a weighted
\* vertex set and a second vertex set
C10_Witness ==
    /\ wpc = "done"
    /\ Len(scene.bones) = 5
    /\ scene.include_texture_list
    /\ scene.filename # <<>>
    /\ loc.infos[3].weights_offset > 0
    /\ loc.infos[2].normals_offset > 0
    /\ Len(loc.facedata_list) = 2

\* ========================================================================
\* Properties of the build: order of the sections and of the passes
\* ========================================================================
\* the main pass has returned
mainPassDone == wpc \in {"patch", "prepend", "done"}

\* the start positions of the buffers of vertex set n, in the order vertices,
\* normals, uvs, weights; a set without meshes has none
bufferStarts(n) ==
    IF loc.sets[n] = <<>> THEN <<>>
    ELSE <<loc.infos[n].vertices_offset, loc.infos[n].normals_offset>>
         \o (IF n # 2 THEN <<loc.infos[n].uvs_offset>> ELSE <<>>)
         \o (IF n = 3 THEN <<loc.infos[n].weights_offset>> ELSE <<>>)

\* the start positions of the vertex-set descriptors of the present sets
descriptorStarts(n) == IF loc.sets[n] = <<>> THEN <<>> ELSE <<loc.infos[n].info_offset>>

\* the start positions, in the stream of the main pass, of the sections that
\* the build wrote, listed in the order texture list, object header, bones,
\* materials, buffers of set 1, 2, 3, descriptors, face strips, face
\* descriptors, mesh sets, mesh-set groups, object summary, NOF0, NFN0, NEND
sectionStarts ==
    (IF scene.include_texture_list THEN <<0>> ELSE <<>>)
    \o <<loc.NGOB_header_offset, loc.bone_offset>>
    \o loc.material_offsets \o <<loc.material_structs_offset>>
    \o bufferStarts(1) \o bufferStarts(2) \o bufferStarts(3)
    \o descriptorStarts(1) \o descriptorStarts(2) \o descriptorStarts(3)
    \o <<loc.offset_to_vertex_sets_offset>>
    \o [k \in 1..Len(loc.facedata_list) |-> loc.facedata_list[k].offset]
    \o loc.face_info_struct_offsets \o <<loc.face_info_offset>>
    \o [k \in 1..Len(loc.meshset_info) |-> loc.meshset_info[k].start_offset]
    \o <<loc.mesh_set_info_offset, loc.main_object_data_offset>>
    \o SubSeq(loc.chunks, Len(loc.chunks) - 2, Len(loc.chunks))

\* the stream that the main pass produced
stream == IF wpc = "patch" THEN D ELSE loc.content

\* the steps of the main pass, in the order of the code
mainPassOrder ==
    <<"NGTL", "NGOB", "materials", "vertex_set_1", "vertex_set_2", "vertex_set_3",
      "vertex_structs", "faces", "face_info", "mesh_sets", "object", "NOF0", "NFN0",
      "NEND", "patch">>

\* C11: the steps of the main pass are taken in the fixed order (the mesh
\* sets alone can end the build by an exception instead), each of them only
\* appends to the stream, and once the main pass has returned the
\* start positions of the sections, in the order of the list (texture list
\* if asked for, object header, bones, materials, buffers of the present
\* vertex sets 1, 2, 3, descriptors, face strips, face descriptors, mesh
\* sets, mesh-set groups, object summary, NOF0, NFN0, NEND), never decrease
\* and lie inside the stream.
C11_EmissionOrder ==
    /\ [](mainPassDone =>
            /\ sectionStarts[1] = 0
            /\ \A k \in 1..(Len(sectionStarts) - 1) : sectionStarts[k] <= sectionStarts[k + 1]
            /\ sectionStarts[Len(sectionStarts)] + 8 <= Len(stream)
            /\ Len(loc.bones) > 0 => loc.bone_offset < loc.material_structs_offset
            /\ loc.material_structs_offset < loc.offset_to_vertex_sets_offset)
    /\ [][\A k \in 1..(Len(mainPassOrder) - 1) :
             wpc = mainPassOrder[k] =>
                /\ \/ wpc' = mainPassOrder[k + 1]
                   \/ wpc = "mesh_sets" /\ wpc' = "raised"
                /\ Len(D') >= Len(D)
                /\ SubSeq(D', 1, Len(D)) = D]_vars

\* a build with a texture list, bones, a material and meshes in the second
\* and the third vertex set, but none in the first, has returned from the
\* main pass
C11_Witness ==
    /\ wpc = "patch"
    /\ scene.include_texture_list
    /\ Len(loc.bones) = 5
    /\ loc.material_offsets # <<>>
    /\ loc.sets[1] = <<>>
    /\ loc.sets[2] # <<>>
    /\ loc.sets[3] # <<>>
    /\ Len(loc.facedata_list) = 2

\* C12: the patch pass leaves the length of the stream as it was, stores the
\* little-endian NGOB_size - 8 at NGOB_header_offset + 4 and the big-endian
\* object-summary offset at NGOB_header_offset + 8, and changes no byte
\* outside these eight, whether the NGOB header is at 0 or after a texture
\* list; the two values are the ones the main pass returned.
C12_PatchFrame ==
    [][wpc = "patch" =>
          /\ wpc' = "prepend"
          /\ Len(D') = Len(D)
          /\ SubSeq(D', loc.NGOB_header_offset + 5, loc.NGOB_header_offset + 8)
                = LE32(loc.offset_to_NOF0 - loc.NGOB_header_offset - 8)
          /\ SubSeq(D', loc.NGOB_header_offset + 9, loc.NGOB_header_offset + 12)
                = BE32(loc.main_object_data_offset)
          /\ \A k \in 1..Len(D) :
                (k <= loc.NGOB_header_offset + 4 \/ k > loc.NGOB_header_offset + 12)
                   => D'[k] = D[k]
          /\ loc.NGOB_size = loc.offset_to_NOF0 - loc.NGOB_header_offset
          /\ loc.NGOB_header_offset = (IF scene.include_texture_list THEN loc.chunks[2]
                                       ELSE 0)]_vars

\* the patch pass has run on a stream without texture list, whose NGOB
\* header is at offset 0, and the eight bytes are no longer the placeholder
C12_Witness ==
    /\ wpc = "prepend"
    /\ ~scene.include_texture_list
    /\ loc.NGOB_header_offset = 0
    /\ SubSeq(D, 1, 4) = NGOB
    /\ SubSeq(D, 5, 8) # Zeros(4)
    /\ SubSeq(D, 9, 12) # Zeros(4)
    /\ loc.meshset_info # <<>>

\* the stream after the header patch was applied to the stream data
patched(data, h, size, off) ==
    patch_header([data |-> data, pos |-> 0, NOF0_offsets |-> <<>>], h, size, off).data

\* C13: applying the header patch twice with the same size and offset to
\* the stream of the main pass gives the same bytes as applying it once,
\* for the values of the build and for size 40 with offset 258, and applying it again
\* to the stream that the patch pass left changes nothing.
C13_PatchIdempotent ==
    /\ wpc = "patch" =>
          \A v \in {<<loc.NGOB_size, loc.main_object_data_offset>>,
                     <<40, 258>>} :
             \A once \in {patched(D, loc.NGOB_header_offset, v[1], v[2])} :
                patched(once, loc.NGOB_header_offset, v[1], v[2]) = once
    /\ wpc = "prepend" =>
          patched(D, loc.NGOB_header_offset, loc.NGOB_size, loc.main_object_data_offset) = D

\* the stream of a main pass with texture list, on which the patch is not
\* the identity
C13_Witness ==
    /\ wpc = "patch"
    /\ loc.NGOB_header_offset > 0
    /\ patched(D, loc.NGOB_header_offset, loc.NGOB_size, loc.main_object_data_offset) # D
    /\ Len(patched(D, loc.NGOB_header_offset, loc.NGOB_size, loc.main_object_data_offset))
          = Len(D)

\* C14: the patch pass starts only when the main pass has written its last
\* chunk, the prepend pass only after the patch pass, and the build is done
\* only after the prepend pass, whose file is a 32-byte NGIF chunk (tag,
\* little-endian size 24, 24 bytes of payload) followed by the patched
\* stream: the byte at stream position p is the byte at file position p + 32.
C14_PrependPass ==
    [][/\ wpc' = "patch" => wpc = "NEND"
       /\ wpc' = "prepend" => wpc = "patch"
       /\ wpc' = "done" =>
             /\ wpc = "prepend"
             /\ Len(D') = 32 + Len(D)
             /\ SubSeq(D', 1, 4) = NGIF
             /\ ReadLE32(D', 4) = 24
             /\ \A p \in 0..(Len(D) - 1) : D'[p + 32 + 1] = D[p + 1]
             /\ D = loc.content]_vars

\* the prepend pass has run on a patched stream with a texture list
C14_Witness ==
    /\ wpc = "done"
    /\ scene.include_texture_list
    /\ Len(D) = 32 + Len(loc.content)
    /\ Len(loc.content) > 64
    /\ SubSeq(D, 33, 36) = NGTL

\* ------------------------------------------------------------------------
\* Chunk sizes of the final file
\* ------------------------------------------------------------------------
\* the file positions of the chunk tags of the final file: the NGIF header
\* and the chunks of the stream, 32 bytes further
chunkStarts == <<0>> \o [k \in 1..Len(loc.chunks) |-> loc.chunks[k] + 32]

\* the tags of the chunks of the final file
chunkTags == <<NGIF>> \o expectedChunks

\* the chunk at index k of the final file carries its tag, and its size
\* field is the number of bytes from the end of its 8-byte header to the
\* next chunk, or to the end of the file for the last one
chunkSized(k) ==
    /\ SubSeq(D, chunkStarts[k] + 1, chunkStarts[k] + 4) = chunkTags[k]
    /\ chunkStarts[k] + 8 + ReadLE32(D, chunkStarts[k] + 4)
          = (IF k < Len(chunkStarts) THEN chunkStarts[k + 1] ELSE Len(D))

\* C15: in the final file the size field of every chunk (NGIF, NGTL when
\* present, NGOB, NOF0, NFN0, NEND) is the number of bytes between the end
\* of the chunk's 8-byte header and the next chunk's tag, or the end of the
\* file for NEND.
C15_ChunkSizes ==
    wpc = "done" =>
       /\ Len(chunkStarts) = Len(chunkTags)
       /\ \A k \in 1..Len(chunkStarts) : chunkSized(k)

\* what the writer does: every chunk before NEND is sized as stated, while
\* NEND carries the size 8 and is followed by 24 bytes up to the end of the
\* file
ChunkSizesWritten ==
    wpc = "done" =>
       /\ Len(chunkStarts) = Len(chunkTags)
       /\ \A k \in 1..(Len(chunkStarts) - 1) : chunkSized(k)
       /\ SubSeq(D, Len(D) - 31, Len(D) - 28) = NEND
       /\ ReadLE32(D, Len(D) - 28) = 8
       /\ chunkStarts[Len(chunkStarts)] = Len(D) - 32

\* ------------------------------------------------------------------------
\* Quantization of normals and uvs
\* ------------------------------------------------------------------------
\* the signed byte at file position p, the signed big-endian short at p
S8(p) == IF D[p + 1] >= 128 THEN D[p + 1] - 256 ELSE D[p + 1]

S16(p) ==
    IF D[p + 1] >= 128 THEN 256 * D[p + 1] + D[p + 2] - 65536
    ELSE 256 * D[p + 1] + D[p + 2]

\* b is the integer nearest to num / One, the even one of the two when
\* num / One lies halfway between two integers
nearest(b, num) ==
    LET d == IF b * One >= num THEN b * One - num ELSE num - b * One
    IN /\ 2 * d <= One
       /\ 2 * d = One => b % 2 = 0

\* C16: write_normals writes each component c of a normal as the signed
\* byte round(c * 64), so (0, 0, 1) becomes (0, 0, 64); write_uvs writes
\* a uv (u, v) as the signed shorts round(u * 256) and round((1 - v) * 256),
\* so (0.5, 0.5) becomes (128, 128).
C16_Quantization ==
    /\ last_op.op = "write_normals" =>
          /\ Len(D) = 9
          /\ \A i \in 1..3 : nearest(S8(i - 1), last_op.normal[i] * 64)
          /\ <<S8(3), S8(4), S8(5)>> = <<0, 0, 64>>
          /\ last_op.normal = <<0, 0, 0 - One>> => SubSeq(D, 1, 3) = <<0, 0, 192>>
    /\ last_op.op = "write_uvs" =>
          /\ nearest(S16(0), last_op.uv[1] * 256)
          /\ nearest(S16(2), (One - last_op.uv[2]) * 256)
          /\ last_op.uv = <<One \div 2, One \div 2>> =>
                D = <<0, 128, 0, 128>>
          /\ last_op.uv # <<One \div 2, One \div 2>> =>
                SubSeq(D, 5, 8) = <<0, 128, 0, 128>> /\ Len(D) = 8

\* a normal with a component halfway between two bytes has been written
C16_Witness ==
    /\ last_op.op = "write_normals"
    /\ last_op.normal = <<768, 0 - 768, One>>
    /\ <<S8(0), S8(1), S8(2)>> = <<2, 0 - 2, 64>>

\* ------------------------------------------------------------------------
\* A mesh without material
\* ------------------------------------------------------------------------
\* the mesh has no material: no slots, or an empty first slot
withoutMaterial(m) == m.materials = <<>> \/ m.materials[1] = None

\* the exported meshes in the order the mesh sets take them
setOrder == loc.sets[1] \o loc.sets[2] \o loc.sets[3]

\* some exported mesh of the scene has no material
materialMissing == \E k \in 1..Len(scene.meshes) : withoutMaterial(scene.meshes[k])

\* the number of meshes that the mesh sets take before the first one
\* without material
meshesBeforeRaise ==
    Cardinality({k \in 1..Len(setOrder) :
                    \A j \in 1..k : ~withoutMaterial(setOrder[j])})

\* C17: a build whose scene has a mesh without material raises when the
\* mesh-set records are written: nothing is written for that mesh (the file
\* ends after the 36-byte records of the meshes before it), no step
\* follows the raise, so the header is never patched and no NGIF header is
\* prepended; a build raises only for such a scene.
C17_MissingMaterial ==
    /\ [](materialMissing => wpc \notin {"object", "NOF0", "NFN0", "NEND", "patch",
                                         "prepend", "done"})
    /\ [](wpc = "raised" =>
            /\ materialMissing
            /\ SubSeq(D, loc.NGOB_header_offset + 1, loc.NGOB_header_offset + 16)
                  = generate_dummy_NGOB_header
            /\ SubSeq(D, 1, 4) # NGIF)
    /\ [][/\ wpc = "mesh_sets" /\ materialMissing =>
               /\ wpc' = "raised"
               /\ Len(D') = Len(D) + 36 * meshesBeforeRaise
               /\ SubSeq(D', 1, Len(D)) = D
          /\ wpc = "raised" => wpc' = "raised" /\ D' = D]_vars

\* the build of a scene whose second mesh has an empty first slot has raised
\* after the record of the first mesh was written
C17_Witness ==
    /\ wpc = "raised"
    /\ Len(scene.meshes) = 2
    /\ ~withoutMaterial(scene.meshes[1])
    /\ scene.meshes[1].uv
    /\ ~is_weight_painted(scene.meshes[1])
    /\ scene.meshes[2].materials = <<None>>
    /\ Len(D) = loc.meshset_info[1].start_offset + 36

\* ------------------------------------------------------------------------
\* Strippify on a used object
\* ------------------------------------------------------------------------
\* what the finished call gave: the error raised, or the strips before they
\* are stitched
outcome ==
    IF pc = "raised"
    THEN [error |-> error, strips |-> <<>>, normal_strips |-> <<>>, uv_strips |-> <<>>]
    ELSE [error |-> "", strips |-> IF result.concat THEN <<>> ELSE strips,
          normal_strips |-> normal_strips, uv_strips |-> uv_strips]

\* what the same arguments give on a Strippifier object that was never used
freshOutcome ==
    LET r == Strippify(face_indices, opts, has_uv_list_initial, FALSE)
    IN IF pc = "returned" /\ result.concat THEN [r EXCEPT !.strips = <<>>] ELSE r

\* C18: a finished call of Strippify, on an object that may have been used
\* for other meshes before, has raised the error or returned the strips
\* that the same arguments give on a fresh object.
C18_Pure == pc \in {"returned", "raised"} => outcome = freshOutcome

\* what holds instead: the call gives what its arguments give on an object
\* with the has_uv_list that the earlier calls left
ReuseDependsOnHasUvList ==
    pc \in {"returned", "raised"} =>
       \E h \in BOOLEAN :
          LET r == Strippify(face_indices, opts, h, FALSE)
          IN outcome = (IF pc = "returned" /\ result.concat THEN [r EXCEPT !.strips = <<>>]
                        ELSE r)

\* ------------------------------------------------------------------------
\* getFirstTri
\* ------------------------------------------------------------------------
\* the triangles of the mesh, and the number of unused neighbours of one
Tris == 1..Len(mesh.verts)

unusedNeighbours(t) == Cardinality({k \in 1..Len(mesh.neighbours[t]) :
                                      ~used[mesh.neighbours[t][k]]})

\* the least element of a set of triangles
First(T) == CHOOSE t \in T : \A x \in T : t <= x

\* the unused triangles with exactly one unused neighbour, and those with
\* at least one
Ends == {t \in Tris : ~used[t] /\ unusedNeighbours(t) = 1}

Open == {t \in Tris : ~used[t] /\ unusedNeighbours(t) > 0}

\* the unused triangles without unused neighbour that the scan meets: all of
\* them, or those before the triangle that ends the scan
Met == {t \in Tris : ~used[t] /\ unusedNeighbours(t) = 0
                       /\ (Ends # {} => t < First(Ends))}

\* the triangle the scan has to return
Expected ==
    IF Ends # {} THEN First(Ends)
    ELSE IF Open # {}
    THEN First({t \in Open : \A x \in Open : unusedNeighbours(t) <= unusedNeighbours(x)})
    ELSE None

\* C19: a call of getFirstTri marks as used exactly the unused triangles
\* without unused neighbour that the scan meets, appends one strip of the
\* three indices of each of them, in index order, and adds their number to
\* the written counter; it returns the first unused triangle with exactly
\* one unused neighbour if there is one, otherwise the first of those with
\* the smallest positive number of unused neighbours, and no triangle
\* exactly when every triangle is used after the scan.
C19_GetFirstTri ==
    [][pc = "picking" =>
          /\ pc' = "picked"
          /\ error' = ""
          /\ firstTri' = Expected
          /\ used' = [t \in Tris |-> used[t] \/ t \in Met]
          /\ written' = written + Cardinality(Met)
          /\ Len(strips') = Len(strips) + Cardinality(Met)
          /\ SubSeq(strips', 1, Len(strips)) = strips
          /\ \A t \in Met :
                LET k == Len(strips) + Cardinality({x \in Met : x <= t})
                IN Len(strips'[k]) = 3 /\ Range(strips'[k]) = Range(mesh.verts[t])
          /\ (firstTri' = None) <=> (\A t \in Tris : used'[t])]_vars

\* a scan that wrote a triangle without unused neighbour as a strip and
\* returned a triangle with at least two unused neighbours
C19_Witness ==
    /\ pc = "picked"
    /\ Len(strips) >= 1
    /\ written > Len(strips)
    /\ firstTri # None
    /\ Len(availableNeighbours(mesh, used, firstTri)) >= 2

\* ------------------------------------------------------------------------
\* brokenCullFlow
\* ------------------------------------------------------------------------
\* the edges of a stored vertex list, in the direction the list goes round
directedEdges(a) == {<<a[1], a[2]>>, <<a[2], a[3]>>, <<a[3], a[1]>>}

\* the two triangles share exactly one edge
shareOneEdge(a, b) == Cardinality(Range(a) \cap Range(b)) = 2

\* both triangles go along the shared edge in the same direction
sameDirection(a, b) == directedEdges(a) \cap directedEdges(b) # {}

\* the stored vertex list started one vertex later
rotated(a) == <<a[2], a[3], a[1]>>

\* the mesh with the vertex list of triangle t started one vertex later
withRotated(t) == [mesh EXCEPT !.verts[t] = rotated(mesh.verts[t])]

\* C20: for two triangles of the mesh that share exactly one edge,
\* brokenCullFlow is true exactly when both go along the shared edge in the
\* same direction, with either order of the arguments and whichever vertex
\* the stored list of either triangle starts with.
C20_BrokenCullFlow ==
    \A A, B \in 1..Len(mesh.verts) :
       shareOneEdge(mesh.verts[A], mesh.verts[B]) =>
          /\ brokenCullFlow(mesh, A, B) <=> sameDirection(mesh.verts[A], mesh.verts[B])
          /\ brokenCullFlow(mesh, A, B) <=> brokenCullFlow(mesh, B, A)
          /\ brokenCullFlow(mesh, A, B) <=> brokenCullFlow(withRotated(A), A, B)
          /\ brokenCullFlow(mesh, A, B) <=> brokenCullFlow(withRotated(B), A, B)

\* what the function computes: true exactly when both triangles go along
\* the shared edge in the same direction and the first vertex of A that B
\* has too is the one at which A leaves the shared edge; the stored list of
\* B may start anywhere
BrokenCullFlowComputed ==
    \A A, B \in 1..Len(mesh.verts) :
       shareOneEdge(mesh.verts[A], mesh.verts[B]) =>
          LET a == mesh.verts[A]
              b == mesh.verts[B]
              v == a[CHOOSE i \in 1..3 : InSeq(a[i], b) /\ \A j \in 1..(i - 1) : ~InSeq(a[j], b)]
          IN /\ brokenCullFlow(mesh, A, B)
                  <=> (sameDirection(a, b)
                       /\ \E e \in directedEdges(a) \cap directedEdges(b) : e[2] = v)
             /\ brokenCullFlow(mesh, A, B) <=> brokenCullFlow(withRotated(B), A, B)


\* ------------------------------------------------------------------------
\* C21  the topology graph after Mesh construction
\* ------------------------------------------------------------------------
\* every triangle of the index list names three different vertices
distinctVertices == \A t \in 1..Len(face_indices) : Cardinality(Range(face_indices[t])) = 3

\* strict construction accepted the index list
acceptedStrict == pc = "built" /\ raiseTopoErrorG

\* every edge holds 1 or 2 distinct triangles, every triangle has 3 edges,
\* A lists B exactly when B lists A and they are different triangles on a
\* common edge, and no triangle has more than 3 neighbour entries
wellFormed ==
    /\ \A e \in 1..Len(mesh.edges) :
          /\ Len(mesh.edges[e].triangles) \in {1, 2}
          /\ Cardinality(Range(mesh.edges[e].triangles)) = Len(mesh.edges[e].triangles)
    /\ \A t \in 1..Len(mesh.verts) :
          /\ Len(mesh.tedges[t]) = 3
          /\ Cardinality(Range(mesh.tedges[t])) = 3
          /\ Len(mesh.neighbours[t]) <= 3
    /\ \A A, B \in 1..Len(mesh.verts) :
          InSeq(B, mesh.neighbours[A]) <=>
             /\ InSeq(A, mesh.neighbours[B])
             /\ A # B
             /\ \E e \in 1..Len(mesh.edges) : {A, B} \subseteq Range(mesh.edges[e].triangles)

\* C21 as stated: after strict construction accepted an index list, the
\* graph is well formed.
C21_WellFormed == acceptedStrict => wellFormed

\* C21: after strict construction accepted an index list whose triangles
\* each name three different vertices, every edge holds 1 or 2 distinct
\* triangles, every triangle has 3 edges and at most 3 neighbour entries,
\* and A lists B exactly when B lists A and they are different triangles
\* on a common edge.
C21_WellFormedDistinct == acceptedStrict /\ distinctVertices => wellFormed

\* strict construction accepted three triangles around a vertex, the middle
\* one with two neighbours
C21_Witness ==
    /\ acceptedStrict /\ distinctVertices
    /\ Len(mesh.verts) = 3
    /\ \E t \in 1..3 : Cardinality(Range(mesh.neighbours[t])) = 2


\* ------------------------------------------------------------------------
\* C22  File.write and File.read with an explicit offset
\* ------------------------------------------------------------------------
\* the bytes of data from position p on, at most n of them
bytesAt(data, p, n) == SubSeq(data, p + 1, IF p + n < Len(data) THEN p + n ELSE Len(data))

\* the step is a write with an offset: the bytes are in the file from the
\* offset on and the position is the one before the call
writeAtOffset ==
    /\ bytesAt(fileobject'.data, last_op'.offset, Len(last_op'.bytes)) = last_op'.bytes
    /\ fileobject'.pos = fileobject.pos

\* the step is a read with an offset: the output is the bytes from the
\* offset on and the position is the one before the call
readAtOffset ==
    /\ last_op'.output = bytesAt(fileobject.data, last_op'.offset, last_op'.size)
    /\ fileobject'.pos = fileobject.pos
    /\ fileobject'.data = fileobject.data

\* C22: a write with an offset >= 0 puts the bytes at the offset and
\* restores the position; a read with an offset >= 0 returns the bytes at
\* the offset and restores the position.
C22_OffsetRestores ==
    [][/\ last_op'.op = "write" /\ last_op'.offset >= 0 => writeAtOffset
       /\ last_op'.op = "read" /\ last_op'.offset >= 0 => readAtOffset]_vars

\* what the code does: the property of C22 for every offset > 0; offset 0
\* behaves as an omitted offset, the call acts at the position and moves it
OffsetZeroIsNoOffset ==
    [][/\ last_op'.op = "write" /\ last_op'.offset > 0 => writeAtOffset
       /\ last_op'.op = "write" /\ last_op'.offset <= 0 =>
             /\ bytesAt(fileobject'.data, fileobject.pos, Len(last_op'.bytes)) = last_op'.bytes
             /\ fileobject'.pos = fileobject.pos + Len(last_op'.bytes)
       /\ last_op'.op = "read" /\ last_op'.offset > 0 => readAtOffset
       /\ last_op'.op = "read" /\ last_op'.offset <= 0 =>
             /\ last_op'.output = bytesAt(fileobject.data, fileobject.pos, last_op'.size)
             /\ fileobject'.pos = fileobject.pos + Len(last_op'.output)]_vars


\* ------------------------------------------------------------------------
\* C23  the pointers of the NGIF header
\* ------------------------------------------------------------------------
\* the chunk at absolute position p of the file: its tag and the position
\* that its size field gives for the next chunk
tagAt(p) == SubSeq(D, p + 1, p + 4)

nextChunk(p) == p + 8 + ReadLE32(D, p + 4)

\* the number of chunks passed when walking from the chunk at p to the
\* first chunk with the tag given, and the position of that chunk
RECURSIVE walkTo(_, _, _)
walkTo(tag, p, n) ==
    IF p + 8 > Len(D) THEN [count |-> 0 - 1, at |-> 0 - 1]
    ELSE IF tagAt(p) = tag THEN [count |-> n, at |-> p]
    ELSE walkTo(tag, nextChunk(p), n + 1)

\* C23: in the final file the index in the NGIF payload is 2 with a texture
\* list and 1 without, and is the number of chunks before the NGOB chunk;
\* the second offset field is the absolute position of the NOF0 chunk (the
\* chunk after NGOB) and the first is that position minus 0x20.
C23_NGIFPointers ==
    wpc = "done" =>
       /\ tagAt(0) = NGIF
       /\ ReadBE32(D, 8) = (IF scene.include_texture_list THEN 2 ELSE 1)
       /\ ReadBE32(D, 8) = walkTo(NGOB, 0, 0).count
       /\ ReadBE32(D, 20) = nextChunk(walkTo(NGOB, 0, 0).at)
       /\ tagAt(ReadBE32(D, 20)) = NOF0
       /\ ReadBE32(D, 16) = ReadBE32(D, 20) - 32

\* a finished file with a texture list in front of the object
C23_Witness ==
    /\ wpc = "done"
    /\ scene.include_texture_list
    /\ walkTo(NGOB, 0, 0).count = 2
    /\ Len(scene.meshes) >= 1


\* ------------------------------------------------------------------------
\* C24  the bone-weight records
\* ------------------------------------------------------------------------
\* the groups of vertex v of the mesh that get_weight_painted_meshes read
groupsAt(v) == scene.meshes[1].groups[v]

\* the mesh read is collected as weight painted
painted == Len(scene.meshes) = 1 /\ is_weight_painted(scene.meshes[1])

\* C24: for a weight-painted mesh the call fails exactly when some vertex
\* is in no group; otherwise there is one record per vertex, with full
\* weight and the bones [g, 0] for a vertex in the single group g, and with
\* the weight of the first group and the first two groups as bones for a
\* vertex in two or more groups.
C24_WeightRecords ==
    /\ wpc = "raised" /\ painted => \E v \in 1..3 : groupsAt(v) = <<>>
    /\ wpc = "weights" /\ painted =>
          /\ Len(loc.weights) = 3
          /\ \A v \in 1..3 :
                /\ groupsAt(v) # <<>>
                /\ Len(groupsAt(v)) = 1 =>
                      /\ loc.weights[v].weight = One
                      /\ loc.weights[v].bones = <<groupsAt(v)[1].group, 0>>
                /\ Len(groupsAt(v)) >= 2 =>
                      /\ loc.weights[v].weight = groupsAt(v)[1].weight
                      /\ loc.weights[v].bones = <<groupsAt(v)[1].group, groupsAt(v)[2].group>>

\* records were made for a mesh with a vertex in one group at half weight
\* and a vertex in four groups
C24_Witness ==
    /\ wpc = "weights" /\ painted
    /\ \E v \in 1..3 : Len(groupsAt(v)) = 1 /\ groupsAt(v)[1].weight # One
    /\ \E v \in 1..3 : Len(groupsAt(v)) = 4


\* ------------------------------------------------------------------------
\* C25  Strippify with default options on a manifold index list
\* ------------------------------------------------------------------------
\* the number of triangles marked used
usedCount == Cardinality({t \in 1..Len(used) : used[t]})

\* C25: a call with default options on a manifold index list, with or
\* without a UV list, raises nothing, and whenever the condition of the
\* outer loop is evaluated and when the call has returned, written is the
\* number of triangles marked used and at most the number of triangles.
C25_ReturnsNormally ==
    (pc # "caller" /\ defaultCall /\ Manifold(face_indices)) =>
        /\ pc \in {"loop", "returned"}
        /\ written = usedCount
        /\ written <= Len(face_indices)

\* what the code does: in every call, whatever the options and the index
\* list, written is the number of triangles marked used and at most the
\* number of triangles whenever the loop condition is evaluated
WrittenCountsUsed ==
    pc \in {"loop", "returned"} => written = usedCount /\ written <= Len(face_indices)

\* a default call with a UV list on a manifold index list raises nothing
WithUvReturnsNormally ==
    (pc # "caller" /\ defaultCall /\ Manifold(face_indices) /\ opts.uvMode # "none")
        => pc \in {"loop", "returned"}


\* ------------------------------------------------------------------------
\* C26  the normal strips follow the vertex strips
\* ------------------------------------------------------------------------
\* the normal index of a vertex is its index (Vertex.__init__, 38-42)
normal_index(v) == v

\* normal strip k holds, position by position, the normal indices of the
\* vertices of vertex strip k
parallelNormals(k) ==
    /\ Len(result.normal_strips[k]) = Len(result.strips[k])
    /\ \A j \in 1..Len(result.strips[k]) :
          result.normal_strips[k][j] = normal_index(result.strips[k][j])

\* C26: in every result of a call without swaps that returns the strips as
\* they are (concat = False), position j of the k-th normal strip holds the
\* normal index of the vertex at position j of the k-th vertex strip.
C26_NormalsParallel ==
    (pc = "returned" /\ ~result.concat /\ ~opts.doSwaps) =>
        \A k \in 1..Len(result.strips) : parallelNormals(k)

\* what the code does: the normal strips follow the vertex strips in the
\* results of calls without swaps in which no strip was reversed
NormalsParallelUnreversed ==
    (pc = "returned" /\ ~result.concat /\ ~opts.doSwaps /\ reversals = 0) =>
        \A k \in 1..Len(result.strips) : parallelNormals(k)


\* ------------------------------------------------------------------------
\* C27  the uv indices of the triangles of a strip
\* ------------------------------------------------------------------------
\* the uv index that source triangle i assigns to its vertex v
sourceUv(i, v) == uv_list(opts.uvMode, face_indices)[i][IndexOf(v, face_indices[i])]

\* the window at position j of strip k carries, at its three positions, the
\* uv indices that source triangle i assigns to the vertices there
windowHasUvsOf(k, j, i) ==
    /\ Range(face_indices[i]) = {result.strips[k][j], result.strips[k][j + 1],
                                 result.strips[k][j + 2]}
    /\ \A p \in j..(j + 2) :
          /\ p <= Len(result.uv_strips[k])
          /\ result.uv_strips[k][p] = sourceUv(i, result.strips[k][p])

\* C27: in the result of a call with a UV list and without swaps that
\* returns the strips as they are, every triangle of a strip carries at its
\* three positions the uv indices that a source triangle of the same
\* vertices assigns to them.
C27_UvsPreserved ==
    (pc = "returned" /\ result.with_uv /\ ~result.concat /\ ~opts.doSwaps) =>
        \A w \in windowsOf(result.strips) :
           \E i \in 1..Len(face_indices) : windowHasUvsOf(w[1], w[2], i)

\* what the code does: a strip position holds one uv index, which is the uv
\* index that some source triangle assigns to the vertex at that position
UvOfSomeTriangle ==
    (pc = "returned" /\ result.with_uv /\ ~result.concat /\ ~opts.doSwaps) =>
        \A k \in 1..Len(result.strips) :
           /\ Len(result.uv_strips[k]) = Len(result.strips[k])
           /\ \A p \in 1..Len(result.strips[k]) :
                 \E i \in 1..Len(face_indices) :
                    /\ InSeq(result.strips[k][p], face_indices[i])
                    /\ result.uv_strips[k][p] = sourceUv(i, result.strips[k][p])


\* ------------------------------------------------------------------------
\* C28  the weight buffer of vertex set 3
\* ------------------------------------------------------------------------
\* the position after the buffers of the vertex sets: the descriptor of the
\* first vertex set that has meshes
buffersEnd == loc.infos[CHOOSE n \in 1..3 : loc.sets[n] # <<>> /\
                            \A x \in 1..(n - 1) : loc.sets[x] = <<>>].info_offset

\* the bytes of the weight buffer, which is the last buffer written
weightBuffer == SubSeq(D, loc.infos[3].weights_offset + 1, buffersEnd)

\* the bytes of the records given (4 bytes per record)
recordBytes(records) ==
    write_vertex_weights([data |-> <<>>, pos |-> 0, NOF0_offsets |-> <<>>], records).data

\* the main pass has returned and vertex set 3 has meshes
set3Written == wpc = "patch" /\ loc.sets[3] # <<>>

\* C28: the weight buffer holds as many records as the descriptor of vertex
\* set 3 counts, and they are the records of the vertices of the meshes of
\* set 3, in order.
C28_WeightBuffer ==
    set3Written =>
        /\ Len(weightBuffer) = 4 * loc.infos[3].weights_count
        /\ weightBuffer = recordBytes(get_weight_painted_meshes(loc.sets[3], 1))

\* what the code does: the weight buffer holds the records of all
\* weight-painted meshes of the scene, those without UV layer included,
\* while the count is the number of vertices of set 3
WeightBufferOfScene ==
    set3Written =>
        /\ weightBuffer = recordBytes(get_weight_painted_meshes(scene.meshes, 1))
        /\ loc.infos[3].weights_count = count_of(loc.sets[3], "vertices")


\* ------------------------------------------------------------------------
\* C29  the runs of strip_faces and the index sequences written for them
\* ------------------------------------------------------------------------
\* the number of faces in the runs before run r
facesBefore(r) == SumSeq([x \in 1..(r - 1) |-> Len(result.face_sets[x])])

\* the bytes written for run r, and where they start in the file
runBytes(r) == write_face_set([data |-> <<>>, pos |-> 0], result.face_sets[r], 0).data

runStart(r) == SumSeq([x \in 1..(r - 1) |-> Len(runBytes(x))])

withTexcoord == result.faces[1].texcoord # <<>>

\* the size of an entry of an index sequence: vertex, normal and, with
\* UVs, texcoord, 2 bytes each
entrySize == IF withTexcoord THEN 6 ELSE 4

\* the file has the marker 0x99 and the count field of run r
runMarker(r) == D[runStart(r) + 1]

runCount(r) == D[runStart(r) + 2] * 256 + D[runStart(r) + 3]

\* entry j of the index sequence of run r, read from the file
entryAt(r, j) ==
    LET p == runStart(r) + 3 + (j - 1) * entrySize
    IN [vertex |-> D[p + 1] * 256 + D[p + 2],
        normal |-> D[p + 3] * 256 + D[p + 4],
        texcoord |-> IF withTexcoord THEN D[p + 5] * 256 + D[p + 6] ELSE 0]

\* the corners of source face i as entries
cornersOf(i) ==
    {[vertex |-> result.faces[i].vertex[c], normal |-> result.faces[i].vertex[c],
      texcoord |-> IF withTexcoord THEN result.faces[i].texcoord[c] ELSE 0] : c \in 1..3}

\* C29: the runs are consecutive and take every face once, in input order;
\* the sequence written for a run has the count run length + 2, and its
\* k-th window of three entries has the vertices, with their normal and uv
\* indices, of the k-th face of the run.
C29_StripFaces ==
    pc = "stripped" =>
        /\ facesBefore(Len(result.face_sets) + 1) = Len(result.faces)
        /\ runStart(Len(result.face_sets) + 1) = Len(D)
        /\ \A r \in 1..Len(result.face_sets) :
              /\ Len(result.face_sets[r]) >= 1
              /\ runMarker(r) = 153
              /\ runCount(r) = Len(result.face_sets[r]) + 2
              /\ Len(runBytes(r)) = 3 + runCount(r) * entrySize
              /\ \A k \in 1..Len(result.face_sets[r]) :
                    /\ Range(result.face_sets[r][k].vertex)
                          = Range(result.faces[facesBefore(r) + k].vertex)
                    /\ {entryAt(r, k), entryAt(r, k + 1), entryAt(r, k + 2)}
                          = cornersOf(facesBefore(r) + k)

\* faces with UVs were stripped into a run of three faces and a further run
C29_Witness ==
    /\ pc = "stripped"
    /\ withTexcoord
    /\ Len(result.face_sets) = 2
    /\ Len(result.face_sets[1]) = 3


\* ------------------------------------------------------------------------
\* C30  reading the bone data back
\* ------------------------------------------------------------------------
\* read_original_model 1096-1098: "for _ in range(NGOB_header_index)": the
\* position after n passes of seek(4, 1); seek(read_int(), 1), read little
\* endian
RECURSIVE skip_headers(_, _, _)
skip_headers(data, pos, n) ==
    IF n = 0 THEN pos ELSE skip_headers(data, pos + 4 + 4 + ReadLE32(data, pos + 4), n - 1)

\* faulty variant of read_original_model: the offsets are taken as
\* positions in the file (start_offset = 0)
read_original_model_absolute(data) ==
    LET NGOB_header_index == ReadBE32(data, 8)
        ngob == skip_headers(data, 0, NGOB_header_index)
        object_data_offset == ReadBE32(data, ngob + 8)
        bone_count == ReadBE32(data, object_data_offset + 40)
        bone_offset == ReadBE32(data, object_data_offset + 40 + 4 + 4)
    IN bytesAt(data, bone_offset, bone_count * 128)

\* read_original_model (nn.py 1090-1110): the bytes returned
read_original_model(data) ==
    LET start_offset == 32
        NGOB_header_index == ReadBE32(data, 8)
        ngob == skip_headers(data, 0, NGOB_header_index)
        object_data_offset == ReadBE32(data, ngob + 8)
        bone_count == ReadBE32(data, object_data_offset + start_offset + 40)
        bone_offset == ReadBE32(data, object_data_offset + start_offset + 40 + 4 + 4)
    IN bytesAt(data, bone_offset + start_offset, bone_count * 128)

\* getbonedata.py 18-20: the position after n passes of
\* seek(unpack('<I', read(4)), 1); seek(4, 1)
RECURSIVE skip_sizes(_, _, _)
skip_sizes(data, pos, n) ==
    IF n = 0 THEN pos ELSE skip_sizes(data, pos + 4 + ReadLE32(data, pos) + 4, n - 1)

\* rigs/getbonedata.py 9-30: the bytes written to the output, or the
\* exception for a file that does not start with NGIF
getbonedata(data) ==
    IF SubSeq(data, 1, 4) # NGIF THEN [raised |-> TRUE, bone_data |-> <<>>]
    ELSE LET ngob_index == ReadBE32(data, 8)
             pos == skip_sizes(data, 4, ngob_index)
             object == ReadBE32(data, pos + 4) + 32
             bone_count == ReadBE32(data, object + 40)
             bone_at == ReadBE32(data, object + 40 + 4 + 4) + 32
         IN [raised |-> FALSE, bone_data |-> bytesAt(data, bone_at, bone_count * 128)]

\* write_model has finished a file whose bone blob is made of whole bones
wholeBones == wpc = "done" /\ Len(scene.bones) % 128 = 0

\* C30: read_original_model returns, and getbonedata.py extracts, exactly
\* the bone blob that write_model wrote into the file, when the length of
\* the blob is a multiple of 0x80.
C30_BoneRoundTrip ==
    wholeBones =>
        /\ read_original_model(D) = scene.bones
        /\ getbonedata(D) = [raised |-> FALSE, bone_data |-> scene.bones]

\* a file with a texture list and one bone was finished
C30_Witness ==
    /\ wholeBones
    /\ Len(scene.bones) = 128
    /\ scene.include_texture_list
    /\ Len(scene.meshes) >= 1

\* what the code does for other blobs: the readers return the whole bones
\* at the start of the blob
PartialBoneIgnored ==
    wpc = "done" =>
        read_original_model(D) = SubSeq(scene.bones, 1, (Len(scene.bones) \div 128) * 128)

====
